---- MODULE Spec2Model ----
(***************************************************************************)
(* Model of src/src/App.tsx: the transfer-management single-page client    *)
(* and the remote row store it talks to (tables users and transactions).   *)
(*                                                                         *)
(* Strings that the code inspects character by character (the IBAN, the    *)
(* recipient name, the amount and balance fields) are sequences of         *)
(* one-character strings.  Numbers are integers (whole currency units);    *)
(* the two IEEE values the code relies on, Infinity and NaN, are the       *)
(* sentinels Infinity and NaN below.  An ISO-8601 timestamp is the tuple   *)
(* of its fixed-width fields, compared lexicographically as the code       *)
(* compares the strings.  A null reference is the record NoUser / NoNote.  *)
(***************************************************************************)
EXTENDS Integers, Sequences, FiniteSets, TLC

\* ------------------------------------------------------------------ bounds
MaxTransfers == 2
MaxNewUsers == 2
MaxTicks == 3
MaxPending == 1
MaxPendingAdds == 2
MaxTimers == 1
MaxIbanBody == 14

\* ------------------------------------------------------- numbers and text
Infinity == 2000000000
NaN == 0 - 2000000000
UnlimitedStoreBalance == 999999999

Upper == {"A","B","C","D","E","F","G","H","I","J","K","L","M",
          "N","O","P","Q","R","S","T","U","V","W","X","Y","Z"}
Digit == {"0","1","2","3","4","5","6","7","8","9"}
Whitespace == {" "}
LowerSeq == <<"a","b","c","d","e","f","g","h","i","j","k","l","m",
              "n","o","p","q","r","s","t","u","v","w","x","y","z">>
UpperSeq == <<"A","B","C","D","E","F","G","H","I","J","K","L","M",
              "N","O","P","Q","R","S","T","U","V","W","X","Y","Z">>
DigitSeq == <<"0","1","2","3","4","5","6","7","8","9">>

\* String.prototype.toUpperCase, one character
ToUpperChar(c) ==
  IF \E i \in 1..26 : LowerSeq[i] = c
    THEN UpperSeq[CHOOSE i \in 1..26 : LowerSeq[i] = c]
    ELSE c

ToUpperCase(s) == [i \in 1..Len(s) |-> ToUpperChar(s[i])]

NotWhitespace(c) == c \notin Whitespace

\* s.replace(/\s/g, '')
StripWhitespace(s) == SelectSeq(s, NotWhitespace)

\* the IBAN field's onChange: e.target.value.toUpperCase().replace(/\s/g, '')
NormalizeIban(raw) == StripWhitespace(ToUpperCase(raw))

RECURSIVE TrimLeft(_)
TrimLeft(s) ==
  IF s # <<>> /\ Head(s) \in Whitespace THEN TrimLeft(Tail(s)) ELSE s

RECURSIVE TrimRight(_)
TrimRight(s) ==
  IF s # <<>> /\ s[Len(s)] \in Whitespace
    THEN TrimRight(SubSeq(s, 1, Len(s) - 1))
    ELSE s

\* String.prototype.trim
Trim(s) == TrimRight(TrimLeft(s))

\* /^[A-Z]{2}[0-9A-Z]+$/.test(s)
IbanRegexTest(s) ==
  /\ Len(s) >= 3
  /\ s[1] \in Upper
  /\ s[2] \in Upper
  /\ \A i \in 3..Len(s) : s[i] \in (Upper \cup Digit)

DigitValue(c) == (CHOOSE i \in 1..10 : DigitSeq[i] = c) - 1

RECURSIVE DigitsPrefix(_, _, _)
\* value of the longest prefix of decimal digits of s, acc so far; n digits read
DigitsPrefix(s, acc, n) ==
  IF s # <<>> /\ Head(s) \in Digit
    THEN DigitsPrefix(Tail(s), 10 * acc + DigitValue(Head(s)), n + 1)
    ELSE <<acc, n>>

\* parseFloat on text made of whitespace, a sign and decimal digits:
\* leading whitespace skipped, optional sign, longest digit prefix; NaN when
\* no digit is read.
ParseFloat(s) ==
  LET t == TrimLeft(s)
      neg == t # <<>> /\ Head(t) = "-"
      body == IF t # <<>> /\ Head(t) \in {"-", "+"} THEN Tail(t) ELSE t
      r == DigitsPrefix(body, 0, 0)
  IN  IF r[2] = 0 THEN NaN ELSE IF neg THEN 0 - r[1] ELSE r[1]

IsNaN(x) == x = NaN

\* a > b on numbers (false when either is NaN)
NumGt(a, b) == ~IsNaN(a) /\ ~IsNaN(b) /\ a > b

\* a < b on numbers
NumLt(a, b) == ~IsNaN(a) /\ ~IsNaN(b) /\ a < b

\* a <= b on numbers
NumLe(a, b) == ~IsNaN(a) /\ ~IsNaN(b) /\ a <= b

\* a - b on numbers, b finite
NumMinus(a, b) ==
  IF IsNaN(a) \/ IsNaN(b) THEN NaN
  ELSE IF a = Infinity THEN Infinity
  ELSE a - b

\* ------------------------------------------------------------------- time
FourHoursMs == 4 * 60 * 60 * 1000
\* a short step of the clock, and the step that completes four hours with it
TickShort == 1000
TickLong == FourHoursMs - TickShort
StartTime == FourHoursMs

\* Date.prototype.toISOString: days, hours, minutes, seconds, milliseconds
ToISOString(t) ==
  << t \div 86400000, (t \div 3600000) % 24, (t \div 60000) % 60,
     (t \div 1000) % 60, t % 1000 >>

RECURSIVE StringGreater(_, _)
\* a > b on strings of equal layout: lexicographic order
StringGreater(a, b) ==
  IF a = <<>> \/ b = <<>> THEN a # <<>>
  ELSE IF Head(a) # Head(b) THEN Head(a) > Head(b)
  ELSE StringGreater(Tail(a), Tail(b))

\* ------------------------------------------------------------ domain data
Role == {"manager", "employee", "accountant"}
View == {"overview", "transfer", "history", "users"}

NoUser == [id |-> <<"null", 0>>, username |-> "", password |-> "", name |-> "",
           role |-> "none", balance |-> 0, isUnlimited |-> FALSE]
NoNote == [type |-> "none", message |-> ""]

IBAN_SHORTCUT_1 ==
  <<"N","L","2","8","I","N","G","B","4","4","9","2","7","0","3","4","1","1">>
IBAN_SHORTCUT_5 ==
  <<"I","R","0","0","7","3","9","8","2","0","0","1","I","R","K","H","M","1","9">>

\* IBAN_SHORTCUTS[val], <<>> when val is no key
IBAN_SHORTCUTS(val) ==
  IF val = <<"1">> THEN IBAN_SHORTCUT_1
  ELSE IF val = <<"5">> THEN IBAN_SHORTCUT_5
  ELSE <<>>

\* notification and login messages (the Arabic texts of the source, by line)
MsgFetchUsers == "fetch users failed: "
MsgConnection == "cannot reach the database"
MsgInvalidCredentials == "invalid credentials"
MsgRequired == "fill in all required fields"
MsgIban == "IBAN format does not conform"
MsgAmount == "amount value invalid"
MsgCooldown == "same IBAN only once every 4 hours"
MsgBalance == "available balance insufficient"
MsgTransferDone == "transfer executed"
MsgSyncError == "sync error: "
MsgAddRequired == "fill in all fields"
MsgUsernameTaken == "username already taken"
MsgAddBalance == "balance value invalid"
MsgAllocation == "available balance does not cover the allocation"
MsgUserCreated == "account created"
MsgUserSaveError == "user save error: "
MsgSelfDelete == "cannot delete your current account"
MsgDeleted == "user deleted"
MsgDeleteFailed == "delete failed: "
MsgRecharged == "user balance updated"
MsgRechargeFailed == "recharge failed: "
StoreError == "store error"

ErrorNote(m) == [type |-> "error", message |-> m]
SuccessNote(m) == [type |-> "success", message |-> m]

\* ------------------------------------------------------------------ state
VARIABLES
  dbUsers,        \* remote table users: sequence of rows
  dbTx,           \* remote table transactions: sequence of rows
  users,          \* useState users
  currentUser,    \* useState currentUser (NoUser = null)
  currentView,    \* useState currentView
  transactions,   \* useState transactions
  transferData,   \* useState transferData
  newUserData,    \* useState newUserData
  isSubmitting,   \* useState isSubmitting
  showAnimation,  \* useState showAnimation
  notification,   \* useState notification (NoNote = null)
  loginForm,      \* LoginScreen useState username, password
  loginError,     \* LoginScreen useState error
  fetchPc,        \* position of fetchInitialData
  fetchTxReply,   \* the transactions select's reply in flight
  syncPc,         \* position of performSync
  syncCtx,        \* values captured by performSync's closure
  addProcs,       \* running syncUser calls, each with its captured values
  delProcs,       \* running handleDeleteUser calls past the confirmation
  rechProcs,      \* running handleRechargeUser calls
  timers,         \* pending setTimeout(() => setNotification(null))
  now,            \* Date.now()
  txIds,          \* generateId calls made for transactions
  userIds,        \* generateId calls made for users
  hSubmitted,     \* history: the session and form of the accepted submission
  hCompleted,     \* history: the transfers whose commit was reported successful
  hWrites,        \* history: store writes sent for the last accepted submission
  otherTab        \* a second tab of the application: its commit and loaded balance

storeVars == <<dbUsers, dbTx>>
formVars == <<transferData, newUserData>>
loginVars == <<loginForm, loginError>>
flowVars == <<isSubmitting, showAnimation, syncPc, syncCtx>>
fetchVars == <<fetchPc, fetchTxReply>>
procVars == <<addProcs, delProcs, rechProcs>>
idVars == <<txIds, userIds>>
histVars == <<hSubmitted, hCompleted, hWrites>>
vars == <<dbUsers, dbTx, users, currentUser, currentView, transactions,
          transferData, newUserData, isSubmitting, showAnimation, notification,
          loginForm, loginError, fetchPc, fetchTxReply, syncPc, syncCtx, addProcs,
          delProcs, rechProcs, timers, now, txIds, userIds, hSubmitted,
          hCompleted, hWrites, otherTab>>

\* ------------------------------------------------------------ remote store
initialAdmin ==
  [id |-> <<"u_admin", 0>>, username |-> "admin", password |-> "admin",
   name |-> "GM", role |-> "manager", balance |-> UnlimitedStoreBalance,
   is_unlimited |-> TRUE]

\* a users table left by earlier sessions: the seeded manager and one employee
EmployeeBalance == 100
\* (its id is one that no generateId call of the session returns)
storedEmployee ==
  [id |-> <<"U-", MaxNewUsers>>, username |-> "e1", password |-> "pw",
   name |-> "N", role |-> "employee", balance |-> EmployeeBalance,
   is_unlimited |-> FALSE]

InitialUserTables == { <<>>, <<initialAdmin, storedEmployee>> }

\* supabase.from('users').update(patch).eq('id', id)
StoreUpdateUser(table, id, patch) ==
  [i \in 1..Len(table) |->
     IF table[i].id = id
       THEN [f \in DOMAIN table[i] |->
               IF f \in DOMAIN patch THEN patch[f] ELSE table[i][f]]
       ELSE table[i]]

\* supabase.from('users').delete().eq('id', id)
StoreDeleteUser(table, id) == SelectSeq(table, LAMBDA r : r.id # id)

RECURSIVE InsertByDateDesc(_, _)
InsertByDateDesc(sorted, row) ==
  IF sorted = <<>> THEN <<row>>
  ELSE IF StringGreater(row.date, Head(sorted).date)
    THEN <<row>> \o sorted
    ELSE <<Head(sorted)>> \o InsertByDateDesc(Tail(sorted), row)

RECURSIVE OrderByDateDesc(_)
\* .order('date', { ascending: false })
OrderByDateDesc(rows) ==
  IF rows = <<>> THEN <<>>
  ELSE InsertByDateDesc(OrderByDateDesc(Tail(rows)), Head(rows))

\* ------------------------------------------------------------- construction
EmptyTransfer == [recipientName |-> <<>>, iban |-> <<>>, amount |-> <<>>]
EmptyNewUser == [name |-> "", username |-> "", password |-> "",
                 role |-> "employee", balance |-> <<>>, isUnlimited |-> FALSE]
EmptyLogin == [username |-> "", password |-> ""]
NoCtx == [user |-> NoUser, amountNum |-> 0, tx |-> <<>>]
NoReply == [kind |-> "none", rows |-> <<>>]
NoSubmission == [user |-> NoUser, data |-> EmptyTransfer]
NoWrites == [inserts |-> 0, updates |-> 0]
TabClosed == [pc |-> "closed", user |-> NoUser, amountNum |-> 0]

Init ==
  /\ dbUsers \in InitialUserTables
  /\ dbTx = <<>>
  /\ users = <<>>
  /\ currentUser = NoUser
  /\ currentView = "overview"
  /\ transactions = <<>>
  /\ transferData = EmptyTransfer
  /\ newUserData = EmptyNewUser
  /\ isSubmitting = FALSE
  /\ showAnimation = FALSE
  /\ notification = NoNote
  /\ loginForm = EmptyLogin
  /\ loginError = ""
  /\ fetchPc = "users"
  /\ fetchTxReply = NoReply
  /\ syncPc = "idle"
  /\ syncCtx = NoCtx
  /\ addProcs = {}
  /\ delProcs = {}
  /\ rechProcs = {}
  /\ timers = 0
  /\ now = StartTime
  /\ txIds = 0
  /\ userIds = 0
  /\ hSubmitted = NoSubmission
  /\ hCompleted = <<>>
  /\ hWrites = NoWrites
  /\ otherTab = TabClosed

LoggedIn == currentUser # NoUser

Min(a, b) == IF a < b THEN a ELSE b

\* setTimeout(() => setNotification(null), ...) scheduled
TimerStarted(n) == Min(n + 1, MaxTimers)

\* -------------------------------------------------------- fetchInitialData
\* usersData.map(u => ({...u, balance: ..., isUnlimited: u.is_unlimited}))
mappedUser(u) ==
  [id |-> u.id, username |-> u.username, password |-> u.password,
   name |-> u.name, role |-> u.role,
   balance |-> IF u.role = "manager" \/ u.is_unlimited THEN Infinity ELSE u.balance,
   isUnlimited |-> u.is_unlimited]

mappedUsers(rows) == [i \in 1..Len(rows) |-> mappedUser(rows[i])]

\* txData.map(tx => ({id, date, recipientName: tx.recipient_name, ...}))
formattedTx(rows) ==
  [i \in 1..Len(rows) |->
     [id |-> rows[i].id, date |-> rows[i].date,
      recipientName |-> rows[i].recipient_name, iban |-> rows[i].iban,
      amount |-> rows[i].amount, status |-> rows[i].status,
      createdBy |-> rows[i].created_by]]

\* the users select is answered: rows, an error object, or a thrown exception
fetchUsersReply(outcome) ==
  /\ fetchPc = "users"
  /\ \/ /\ outcome = "error"
        /\ notification' = ErrorNote(MsgFetchUsers \o StoreError)
        /\ fetchPc' = "tx"
        /\ UNCHANGED users
     \/ /\ outcome = "throw"
        /\ notification' = ErrorNote(MsgConnection)
        /\ fetchPc' = "done"
        /\ UNCHANGED users
     \/ /\ outcome = "data"
        /\ Len(dbUsers) > 0
        /\ users' = mappedUsers(dbUsers)
        /\ fetchPc' = "tx"
        /\ UNCHANGED notification
     \/ /\ outcome = "data"
        /\ Len(dbUsers) = 0
        /\ fetchPc' = "seed"
        /\ UNCHANGED <<users, notification>>
  /\ UNCHANGED <<storeVars, currentUser, currentView, transactions, formVars,
                 loginVars, flowVars, fetchTxReply, procVars, timers, now, otherTab, histVars, idVars>>

\* fetchSeedReply with setUsers called whatever the insert answered
fetchSeedReplyListAlways(ok) ==
  /\ fetchPc = "seed"
  /\ dbUsers' = IF ok THEN Append(dbUsers, initialAdmin) ELSE dbUsers
  /\ users' = << [mappedUser(initialAdmin) EXCEPT
                    !.balance = Infinity, !.isUnlimited = TRUE] >>
  /\ fetchPc' = "tx"
  /\ UNCHANGED <<dbTx, currentUser, currentView, transactions, formVars,
                 loginVars, flowVars, fetchTxReply, notification, procVars,
                 timers, now, otherTab, histVars, idVars>>

\* the seeding insert of the initial admin is answered
fetchSeedReply(ok) ==
  /\ fetchPc = "seed"
  /\ IF ok
       THEN /\ dbUsers' = Append(dbUsers, initialAdmin)
            /\ users' = << [mappedUser(initialAdmin) EXCEPT
                              !.balance = Infinity, !.isUnlimited = TRUE] >>
       ELSE UNCHANGED <<dbUsers, users>>
  /\ fetchPc' = "tx"
  /\ UNCHANGED <<dbTx, currentUser, currentView, transactions, formVars,
                 loginVars, flowVars, fetchTxReply, notification, procVars,
                 timers, now, otherTab, histVars, idVars>>

\* the store evaluates the transactions select
fetchTxExecute(ok) ==
  /\ fetchPc = "tx"
  /\ fetchPc' = "txReply"
  /\ fetchTxReply' = IF ok THEN [kind |-> "data", rows |-> OrderByDateDesc(dbTx)]
                          ELSE [kind |-> "error", rows |-> <<>>]
  /\ UNCHANGED <<storeVars, users, currentUser, currentView, transactions,
                 formVars, loginVars, flowVars, notification, procVars, timers,
                 now, otherTab, histVars, idVars>>

\* the transactions select's reply reaches the client
fetchTxReceive ==
  /\ fetchPc = "txReply"
  /\ fetchPc' = "done"
  /\ fetchTxReply' = NoReply
  /\ transactions' = IF fetchTxReply.kind = "data"
                       THEN formattedTx(fetchTxReply.rows)
                       ELSE transactions
  /\ UNCHANGED <<storeVars, users, currentUser, currentView, formVars,
                 loginVars, flowVars, notification, procVars, timers, now, otherTab, histVars,
                 idVars>>

\* ------------------------------------------------------- session and views
LoginMatches(u, p) ==
  {i \in 1..Len(users) : users[i].username = u /\ users[i].password = p}

\* FindUser matching the username alone
FindUserByName(u, p) ==
  IF \E k \in 1..Len(users) : users[k].username = u
    THEN users[CHOOSE k \in 1..Len(users) : users[k].username = u]
    ELSE NoUser

\* users.find(user => user.username === u && user.password === p)
FindUser(u, p) ==
  IF LoginMatches(u, p) = {} THEN NoUser
  ELSE users[CHOOSE i \in LoginMatches(u, p) : \A j \in LoginMatches(u, p) : i <= j]

\* InitialView opening the overview for every role
InitialViewOverview(role) == "overview"

InitialView(role) == IF role = "employee" THEN "transfer" ELSE "overview"

\* loginFailure telling an unknown username from a wrong password
loginFailureByCause(u, p) ==
  IF \E k \in 1..Len(users) : users[k].username = u
    THEN "wrong password" ELSE "unknown user"

\* the error string handleLoginAttempt returns when nothing is found
loginFailure(u, p) == MsgInvalidCredentials

\* LoginScreen.handleSubmit with the fields holding u and p
handleLoginAttempt(u, p) ==
  /\ ~LoggedIn
  /\ LET found == FindUser(u, p) IN
       IF found # NoUser
         THEN /\ currentUser' = found
              /\ currentView' = InitialView(found.role)
              /\ loginForm' = EmptyLogin
              /\ loginError' = ""
         ELSE /\ loginForm' = [username |-> u, password |-> p]
              /\ loginError' = loginFailure(u, p)
              /\ UNCHANGED <<currentUser, currentView>>
  /\ UNCHANGED <<storeVars, users, transactions, formVars, flowVars, fetchVars,
                 notification, procVars, timers, now, otherTab, histVars, idVars>>

handleLogout ==
  /\ LoggedIn
  /\ currentUser' = NoUser
  /\ UNCHANGED <<storeVars, users, currentView, transactions, formVars,
                 loginVars, flowVars, fetchVars, notification, procVars, timers,
                 now, otherTab, histVars, idVars>>

\* navItems: the views whose roles include the session's role
navItems(role) ==
  {v \in View :
     \/ v = "overview" /\ role \in {"manager", "accountant"}
     \/ v = "transfer" /\ role \in {"manager", "employee"}
     \/ v = "users" /\ role \in {"manager"}
     \/ v = "history" /\ role \in {"manager", "employee", "accountant"}}

\* a sidebar button, or the overview's VIEW_ALL button
navigate(v) ==
  /\ LoggedIn
  /\ \/ v \in navItems(currentUser.role)
     \/ currentView = "overview" /\ v = "history"
  /\ currentView' = v
  /\ UNCHANGED <<storeVars, users, currentUser, transactions, formVars,
                 loginVars, flowVars, fetchVars, notification, procVars, timers,
                 now, otherTab, histVars, idVars>>

\* ------------------------------------------------------------ transfer flow
\* the recipient field's onChange
recipientOnChange(prev, val) ==
  [prev EXCEPT !.recipientName = val,
               !.iban = IF IBAN_SHORTCUTS(val) # <<>> THEN IBAN_SHORTCUTS(val) ELSE @]

\* the IBAN field's onChange
ibanOnChange(prev, val) == [prev EXCEPT !.iban = NormalizeIban(val)]

\* the amount field's onChange
amountOnChange(prev, val) == [prev EXCEPT !.amount = val]

\* the form after the three fields were typed, the recipient last
typedTransfer(prev, r, i, a) ==
  recipientOnChange(amountOnChange(ibanOnChange(prev, i), a), r)

\* !recipientName.trim() || !iban.trim() || !amount
MissingField(d) ==
  Trim(d.recipientName) = <<>> \/ Trim(d.iban) = <<>> \/ d.amount = <<>>

\* BadIban with the length bound off by one
BadIbanOffByOne(iban) == ~IbanRegexTest(iban) \/ Len(iban) < 14

\* !/^[A-Z]{2}[0-9A-Z]+$/.test(iban) || iban.length < 15
BadIban(iban) == ~IbanRegexTest(iban) \/ Len(iban) < 15

\* isNaN(amountNum) || amountNum <= 0
BadAmount(amountNum) == IsNaN(amountNum) \/ NumLe(amountNum, 0)

\* transactions.find(tx => tx.iban === iban && tx.createdBy === username
\*                         && tx.date > fourHoursAgo) is defined
RecentTx(txs, iban, username, t) ==
  \E k \in 1..Len(txs) :
     /\ txs[k].iban = iban
     /\ txs[k].createdBy = username
     /\ StringGreater(txs[k].date, ToISOString(t - FourHoursMs))

\* Constrained testing the role alone
ConstrainedByRole(u) == u.role # "manager"

\* role !== 'manager' && !isUnlimited
Constrained(u) == u.role # "manager" /\ ~u.isUnlimited

\* TransferRejection with the balance comparison turned around
TransferRejectionFlipped(d, user, txs, t) ==
  IF MissingField(d) THEN MsgRequired
  ELSE IF BadIban(d.iban) THEN MsgIban
  ELSE IF BadAmount(ParseFloat(d.amount)) THEN MsgAmount
  ELSE IF user.role = "employee" /\ RecentTx(txs, d.iban, user.username, t)
    THEN MsgCooldown
  ELSE IF Constrained(user) /\ NumLt(ParseFloat(d.amount), user.balance)
    THEN MsgBalance
  ELSE ""

\* TransferRejection with the amount rule tested before the IBAN rule
TransferRejectionAmountFirst(d, user, txs, t) ==
  IF MissingField(d) THEN MsgRequired
  ELSE IF BadAmount(ParseFloat(d.amount)) THEN MsgAmount
  ELSE IF BadIban(d.iban) THEN MsgIban
  ELSE IF user.role = "employee" /\ RecentTx(txs, d.iban, user.username, t)
    THEN MsgCooldown
  ELSE IF Constrained(user) /\ NumGt(ParseFloat(d.amount), user.balance)
    THEN MsgBalance
  ELSE ""

\* the message handleTransferSubmit rejects the form d with, "" if it accepts
TransferRejection(d, user, txs, t) ==
  IF MissingField(d) THEN MsgRequired
  ELSE IF BadIban(d.iban) THEN MsgIban
  ELSE IF BadAmount(ParseFloat(d.amount)) THEN MsgAmount
  ELSE IF user.role = "employee" /\ RecentTx(txs, d.iban, user.username, t)
    THEN MsgCooldown
  ELSE IF Constrained(user) /\ NumGt(ParseFloat(d.amount), user.balance)
    THEN MsgBalance
  ELSE ""

\* the transfer form is on screen
TransferFormShown == LoggedIn /\ currentView = "transfer" /\ ~isSubmitting

\* the transfer form is filled with r, i, a and submitted
handleTransferSubmit(r, i, a) ==
  /\ TransferFormShown
  /\ txIds < MaxTransfers
  /\ LET d == typedTransfer(transferData, r, i, a)
         msg == TransferRejection(d, currentUser, transactions, now)
     IN  /\ transferData' = d
         /\ IF isSubmitting
              THEN UNCHANGED <<notification, isSubmitting, showAnimation,
                               hSubmitted, hWrites>>
              ELSE IF msg # ""
                THEN /\ notification' = ErrorNote(msg)
                     /\ UNCHANGED <<isSubmitting, showAnimation, hSubmitted,
                                     hWrites>>
                ELSE /\ notification' = NoNote
                     /\ isSubmitting' = TRUE
                     /\ showAnimation' = TRUE
                     /\ hSubmitted' = [user |-> currentUser, data |-> d]
                     /\ hWrites' = NoWrites
  /\ UNCHANGED <<storeVars, users, currentUser, currentView, transactions,
                 newUserData, loginVars, syncPc, syncCtx, fetchVars, procVars,
                 timers, now, otherTab, hCompleted, idVars>>

\* the row performSync inserts for newTransaction
txRow(tx) ==
  [id |-> tx.id, date |-> tx.date, recipient_name |-> tx.recipientName,
   iban |-> tx.iban, amount |-> tx.amount, status |-> tx.status,
   created_by |-> tx.createdBy]

newTransaction(d, user, t, n) ==
  [id |-> <<"TX-", n>>, date |-> ToISOString(t), recipientName |-> d.recipientName,
   iban |-> d.iban, amount |-> ParseFloat(d.amount), status |-> "completed",
   createdBy |-> user.username]

\* handleAnimationComplete with setShowAnimation(false) left out
handleAnimationCompleteOverlayKept ==
  /\ showAnimation
  /\ LoggedIn
  /\ syncCtx' = [user |-> currentUser, amountNum |-> ParseFloat(transferData.amount),
                 tx |-> <<newTransaction(transferData, currentUser, now, txIds)>>]
  /\ txIds' = txIds + 1
  /\ syncPc' = "insert"
  /\ timers' = TimerStarted(timers)
  /\ hWrites' = [hWrites EXCEPT !.inserts = @ + 1]
  /\ UNCHANGED <<storeVars, users, currentUser, currentView, transactions,
                 formVars, loginVars, isSubmitting, showAnimation, fetchVars,
                 notification, procVars, now, otherTab, hSubmitted, hCompleted, userIds>>

\* TransferAnimation's timer fires: onComplete, up to the first await
handleAnimationComplete ==
  /\ showAnimation
  /\ LoggedIn
  /\ showAnimation' = FALSE
  /\ syncCtx' = [user |-> currentUser, amountNum |-> ParseFloat(transferData.amount),
                 tx |-> <<newTransaction(transferData, currentUser, now, txIds)>>]
  /\ txIds' = txIds + 1
  /\ syncPc' = "insert"
  /\ timers' = TimerStarted(timers)
  /\ hWrites' = [hWrites EXCEPT !.inserts = @ + 1]
  /\ UNCHANGED <<storeVars, users, currentUser, currentView, transactions,
                 formVars, loginVars, isSubmitting, fetchVars, notification,
                 procVars, now, otherTab, hSubmitted, hCompleted, userIds>>

\* performSync's tail after the writes succeeded
syncSuccess ==
  /\ transactions' = syncCtx.tx \o transactions
  /\ transferData' = EmptyTransfer
  /\ isSubmitting' = FALSE
  /\ notification' = SuccessNote(MsgTransferDone)
  /\ syncPc' = "idle"
  /\ syncCtx' = NoCtx
  /\ hSubmitted' = NoSubmission
  /\ hCompleted' = syncCtx.tx \o hCompleted

\* syncFailure with setIsSubmitting(false) left out
syncFailureStillSubmitting ==
  /\ notification' = ErrorNote(MsgSyncError \o StoreError)
  /\ syncPc' = "idle"
  /\ syncCtx' = NoCtx
  /\ hSubmitted' = NoSubmission
  /\ UNCHANGED <<isSubmitting, hCompleted>>

\* syncFailure sending the transaction insert again instead of giving up
syncFailureRetried ==
  /\ notification' = ErrorNote(MsgSyncError \o StoreError)
  /\ syncPc' = "insert"
  /\ UNCHANGED <<isSubmitting, syncCtx, hSubmitted, hCompleted>>

\* performSync's catch block
syncFailure ==
  /\ isSubmitting' = FALSE
  /\ notification' = ErrorNote(MsgSyncError \o StoreError)
  /\ syncPc' = "idle"
  /\ syncCtx' = NoCtx
  /\ hSubmitted' = NoSubmission
  /\ UNCHANGED hCompleted

\* syncInsertReply with the insert's error ignored (no throw)
syncInsertReplyErrorIgnored(ok) ==
  /\ syncPc = "insert"
  /\ dbTx' = IF ok THEN Append(dbTx, txRow(syncCtx.tx[1])) ELSE dbTx
  /\ IF Constrained(syncCtx.user)
       THEN /\ syncPc' = "update"
            /\ hWrites' = [hWrites EXCEPT !.updates = @ + 1]
            /\ UNCHANGED <<transactions, transferData, isSubmitting,
                           notification, syncCtx, hSubmitted, hCompleted>>
       ELSE syncSuccess /\ UNCHANGED hWrites
  /\ UNCHANGED <<dbUsers, users, currentUser, currentView, newUserData,
                 loginVars, showAnimation, fetchVars, procVars, timers, now, otherTab,
                 idVars>>

\* performSync: the transaction insert is answered
syncInsertReply(ok) ==
  /\ syncPc = "insert"
  /\ IF ~ok
       THEN /\ syncFailure
            /\ UNCHANGED <<dbTx, transactions, transferData, hWrites>>
       ELSE /\ dbTx' = Append(dbTx, txRow(syncCtx.tx[1]))
            /\ IF Constrained(syncCtx.user)
                 THEN /\ syncPc' = "update"
                      /\ hWrites' = [hWrites EXCEPT !.updates = @ + 1]
                      /\ UNCHANGED <<transactions, transferData, isSubmitting,
                                     notification, syncCtx, hSubmitted,
                                     hCompleted>>
                 ELSE syncSuccess /\ UNCHANGED hWrites
  /\ UNCHANGED <<dbUsers, users, currentUser, currentView, newUserData,
                 loginVars, showAnimation, fetchVars, procVars, timers, now, otherTab,
                 idVars>>

\* withBalance with the list left as it was (the setUsers call forgotten)
withBalanceForgotten(list, id, balance) == list

\* users.map(u => u.id === id ? {...u, balance} : u)
withBalance(list, id, balance) ==
  [k \in 1..Len(list) |->
     IF list[k].id = id THEN [list[k] EXCEPT !.balance = balance] ELSE list[k]]

\* prev => prev ? {...prev, balance} : null
sessionWithBalance(prev, balance) ==
  IF prev # NoUser THEN [prev EXCEPT !.balance = balance] ELSE NoUser

\* performSync: the balance update is answered
syncUpdateReply(ok) ==
  /\ syncPc = "update"
  /\ LET newBalance == NumMinus(syncCtx.user.balance, syncCtx.amountNum) IN
       IF ~ok
         THEN /\ syncFailure
              /\ UNCHANGED <<dbUsers, users, currentUser, transactions, transferData>>
         ELSE /\ dbUsers' = StoreUpdateUser(dbUsers, syncCtx.user.id,
                                            [balance |-> newBalance])
              /\ users' = withBalance(users, syncCtx.user.id, newBalance)
              /\ currentUser' = sessionWithBalance(currentUser, newBalance)
              /\ syncSuccess
  /\ UNCHANGED <<dbTx, currentView, newUserData, loginVars, showAnimation,
                 fetchVars, procVars, timers, now, otherTab, idVars, hWrites>>

\* a pending setTimeout(() => setNotification(null)) fires
notificationTimeout ==
  /\ timers > 0
  /\ timers' = timers - 1
  /\ notification' = NoNote
  /\ UNCHANGED <<storeVars, users, currentUser, currentView, transactions,
                 formVars, loginVars, flowVars, fetchVars, procVars, now, otherTab, histVars, idVars>>

TicksOf(t) ==
  ((t - StartTime) \div TickLong) + (((t - StartTime) % TickLong) \div TickShort)

\* time passes
Tick(d) ==
  /\ TicksOf(now) < MaxTicks
  /\ now' = now + d
  /\ UNCHANGED <<storeVars, users, currentUser, currentView, transactions,
                 formVars, loginVars, flowVars, fetchVars, notification,
                 procVars, timers, idVars, histVars, otherTab>>

\* ----------------------------------------------------------- a second tab
\* The same application open in another tab of the browser, with its own
\* state: only its session and its commit are kept here, as they act on the
\* store the first tab shares with it.
OtherTabFrame ==
  UNCHANGED <<users, currentUser, currentView, transactions, formVars,
              loginVars, flowVars, fetchVars, notification, procVars, timers,
              now, idVars, histVars>>

\* the other tab loads the users and u logs in there with password p
otherTabLogin(u, p) ==
  /\ otherTab.pc = "closed"
  /\ \E k \in 1..Len(dbUsers) :
       /\ dbUsers[k].username = u
       /\ dbUsers[k].password = p
       /\ otherTab' = [pc |-> "idle", user |-> mappedUser(dbUsers[k]),
                       amountNum |-> 0]
  /\ UNCHANGED storeVars
  /\ OtherTabFrame

\* the other tab's handleTransferSubmit accepts amount a for recipient "5",
\* its settlement completes and its performSync sends the insert
otherTabTransfer(a) ==
  /\ otherTab.pc = "idle"
  /\ ~BadAmount(ParseFloat(a))
  /\ ~(Constrained(otherTab.user) /\ NumGt(ParseFloat(a), otherTab.user.balance))
  /\ otherTab' = [otherTab EXCEPT !.pc = "insert", !.amountNum = ParseFloat(a)]
  /\ UNCHANGED storeVars
  /\ OtherTabFrame

\* the other tab's performSync: the transaction insert is answered
otherTabInsertReply(ok) ==
  /\ otherTab.pc = "insert"
  /\ IF ~ok
       THEN otherTab' = [otherTab EXCEPT !.pc = "failed"] /\ UNCHANGED dbTx
       ELSE /\ dbTx' = Append(dbTx,
                 [id |-> <<"TX-", 0 - 1>>, date |-> ToISOString(now),
                  recipient_name |-> <<"5">>, iban |-> IBAN_SHORTCUT_5,
                  amount |-> otherTab.amountNum, status |-> "completed",
                  created_by |-> otherTab.user.username])
            /\ otherTab' = [otherTab EXCEPT
                   !.pc = IF Constrained(otherTab.user) THEN "update" ELSE "done"]
  /\ UNCHANGED dbUsers
  /\ OtherTabFrame

\* the balance update of the other tab, had it debited the stored balance
otherTabUpdateReplyFresh(ok) ==
  /\ otherTab.pc = "update"
  /\ IF ~ok
       THEN otherTab' = [otherTab EXCEPT !.pc = "failed"] /\ UNCHANGED dbUsers
       ELSE /\ dbUsers' =
                 [i \in 1..Len(dbUsers) |->
                    IF dbUsers[i].id = otherTab.user.id
                      THEN [dbUsers[i] EXCEPT
                              !.balance = NumMinus(@, otherTab.amountNum)]
                      ELSE dbUsers[i]]
            /\ otherTab' = [otherTab EXCEPT !.pc = "done"]
  /\ UNCHANGED dbTx
  /\ OtherTabFrame

\* the other tab's performSync: the balance update is answered
otherTabUpdateReply(ok) ==
  /\ otherTab.pc = "update"
  /\ LET newBalance == NumMinus(otherTab.user.balance, otherTab.amountNum) IN
       IF ~ok
         THEN otherTab' = [otherTab EXCEPT !.pc = "failed"] /\ UNCHANGED dbUsers
         ELSE /\ dbUsers' = StoreUpdateUser(dbUsers, otherTab.user.id,
                                            [balance |-> newBalance])
              /\ otherTab' = [otherTab EXCEPT !.pc = "done"]
  /\ UNCHANGED dbTx
  /\ OtherTabFrame

\* ------------------------------------------------------ account provisioning
\* the form fields left empty
AddMissingField(f) ==
  \/ f.name = ""
  \/ f.username = ""
  \/ f.password = ""
  \/ (~f.isUnlimited /\ f.balance = <<>>)

\* isUnlimited ? 999999999 : parseFloat(balance)
allocatedBalance(f) ==
  IF f.isUnlimited THEN UnlimitedStoreBalance ELSE ParseFloat(f.balance)

\* users.some(u => u.username === username)
UsernameTaken(list, username) ==
  \E k \in 1..Len(list) : list[k].username = username

\* the message handleAddUser rejects the form f with, "" if it accepts
AddUserRejection(f, user, list) ==
  IF AddMissingField(f) THEN MsgAddRequired
  ELSE IF UsernameTaken(list, f.username) THEN MsgUsernameTaken
  ELSE IF ~f.isUnlimited
          /\ (IsNaN(allocatedBalance(f)) \/ NumLt(allocatedBalance(f), 0))
    THEN MsgAddBalance
  ELSE IF Constrained(user) /\ NumGt(allocatedBalance(f), user.balance)
    THEN MsgAllocation
  ELSE ""

createdUser(f, n) ==
  [id |-> <<"U-", n>>, username |-> f.username, password |-> f.password,
   name |-> f.name, role |-> f.role,
   balance |-> IF f.isUnlimited THEN Infinity ELSE allocatedBalance(f),
   isUnlimited |-> f.isUnlimited]

\* the row syncUser inserts for the created user
userRow(u, f) ==
  [id |-> u.id, username |-> u.username, password |-> u.password,
   name |-> u.name, role |-> u.role,
   balance |-> IF f.isUnlimited THEN UnlimitedStoreBalance ELSE allocatedBalance(f),
   is_unlimited |-> u.isUnlimited]

\* the provisioning form is on screen
UsersViewShown == LoggedIn /\ currentView = "users"

\* the provisioning form is filled with f and submitted, up to the first await
handleAddUser(f) ==
  /\ UsersViewShown
  /\ userIds < MaxNewUsers
  /\ Cardinality(addProcs) < MaxPendingAdds
  /\ newUserData' = f
  /\ LET msg == AddUserRejection(f, currentUser, users) IN
       IF msg # ""
         THEN /\ notification' = ErrorNote(msg)
              /\ UNCHANGED <<addProcs, userIds, timers>>
         ELSE /\ notification' = NoNote
              /\ addProcs' = addProcs \cup
                   {[pc |-> "insert", creator |-> currentUser,
                     created |-> createdUser(f, userIds),
                     row |-> userRow(createdUser(f, userIds), f),
                     allocated |-> allocatedBalance(f)]}
              /\ userIds' = userIds + 1
              /\ timers' = TimerStarted(timers)
  /\ UNCHANGED <<storeVars, users, currentUser, currentView, transactions,
                 transferData, loginVars, flowVars, fetchVars, delProcs,
                 rechProcs, now, otherTab, histVars, txIds>>

\* syncUser's tail after the writes succeeded
syncUserSuccess ==
  /\ newUserData' = EmptyNewUser
  /\ notification' = SuccessNote(MsgUserCreated)

\* syncUser's catch block
syncUserFailure ==
  /\ notification' = ErrorNote(MsgUserSaveError \o StoreError)
  /\ UNCHANGED newUserData

\* syncUser: the user insert is answered
syncUserInsertReply(proc, ok) ==
  /\ proc \in addProcs
  /\ proc.pc = "insert"
  /\ IF ~ok
       THEN /\ syncUserFailure
            /\ addProcs' = addProcs \ {proc}
            /\ UNCHANGED <<dbUsers, users>>
       ELSE /\ dbUsers' = Append(dbUsers, proc.row)
            /\ IF Constrained(proc.creator)
                 THEN /\ addProcs' = (addProcs \ {proc}) \cup
                                       {[proc EXCEPT !.pc = "update"]}
                      /\ UNCHANGED <<users, newUserData, notification>>
                 ELSE /\ users' = Append(users, proc.created)
                      /\ addProcs' = addProcs \ {proc}
                      /\ syncUserSuccess
  /\ UNCHANGED <<dbTx, currentUser, currentView, transactions, transferData,
                 loginVars, flowVars, fetchVars, delProcs, rechProcs, timers,
                 now, otherTab, histVars, idVars>>

\* syncUser: the creator's balance update is answered
syncUserUpdateReply(proc, ok) ==
  /\ proc \in addProcs
  /\ proc.pc = "update"
  /\ addProcs' = addProcs \ {proc}
  /\ LET newManagerBalance == NumMinus(proc.creator.balance, proc.allocated) IN
       IF ~ok
         THEN /\ syncUserFailure
              /\ UNCHANGED <<dbUsers, users, currentUser>>
         ELSE /\ dbUsers' = StoreUpdateUser(dbUsers, proc.creator.id,
                                            [balance |-> newManagerBalance])
              /\ users' = Append(withBalance(users, proc.creator.id,
                                             newManagerBalance), proc.created)
              /\ currentUser' = sessionWithBalance(currentUser, newManagerBalance)
              /\ syncUserSuccess
  /\ UNCHANGED <<dbTx, currentView, transactions, transferData, loginVars,
                 flowVars, fetchVars, delProcs, rechProcs, timers, now, otherTab, histVars, idVars>>

\* ------------------------------------------------------- delete and recharge
UserIdsShown == {users[k].id : k \in 1..Len(users)}

\* prev.filter(u => u.id !== userId)
withoutUser(list, userId) == SelectSeq(list, LAMBDA u : u.id # userId)

\* handleDeleteUser without the test for the session's own id
handleDeleteUserUnguarded(userId, confirmed) ==
  /\ UsersViewShown
  /\ userId \in UserIdsShown
  /\ IF ~confirmed
       THEN UNCHANGED <<notification, delProcs>>
       ELSE /\ Cardinality(delProcs) < MaxPending
            /\ delProcs' = delProcs \cup {userId}
            /\ UNCHANGED notification
  /\ UNCHANGED <<storeVars, users, currentUser, currentView, transactions,
                 formVars, loginVars, flowVars, fetchVars, addProcs, rechProcs,
                 timers, now, otherTab, histVars, idVars>>

\* the delete button of row userId is pressed; confirmed is window.confirm's answer
handleDeleteUser(userId, confirmed) ==
  /\ UsersViewShown
  /\ userId \in UserIdsShown
  /\ IF userId = currentUser.id
       THEN /\ notification' = ErrorNote(MsgSelfDelete)
            /\ UNCHANGED delProcs
       ELSE IF ~confirmed
         THEN UNCHANGED <<notification, delProcs>>
         ELSE /\ Cardinality(delProcs) < MaxPending
              /\ delProcs' = delProcs \cup {userId}
              /\ UNCHANGED notification
  /\ UNCHANGED <<storeVars, users, currentUser, currentView, transactions,
                 formVars, loginVars, flowVars, fetchVars, addProcs, rechProcs,
                 timers, now, otherTab, histVars, idVars>>

\* handleDeleteUser: the store delete is answered
deleteReply(userId, ok) ==
  /\ userId \in delProcs
  /\ delProcs' = delProcs \ {userId}
  /\ IF ok
       THEN /\ dbUsers' = StoreDeleteUser(dbUsers, userId)
            /\ users' = withoutUser(users, userId)
            /\ notification' = SuccessNote(MsgDeleted)
       ELSE /\ notification' = ErrorNote(MsgDeleteFailed \o StoreError)
            /\ UNCHANGED <<dbUsers, users>>
  /\ UNCHANGED <<dbTx, currentUser, currentView, transactions, formVars,
                 loginVars, flowVars, fetchVars, addProcs, rechProcs, timers,
                 now, otherTab, histVars, idVars>>

\* withRecharge writing the balance and leaving the unlimited flag
withRechargeFlagKept(list, userId, amount, isUnlimited) ==
  [k \in 1..Len(list) |->
     IF list[k].id = userId
       THEN [list[k] EXCEPT !.balance = IF isUnlimited THEN Infinity ELSE amount]
       ELSE list[k]]

\* prev.map(u => u.id === userId ? {...u, balance, isUnlimited} : u)
withRecharge(list, userId, amount, isUnlimited) ==
  [k \in 1..Len(list) |->
     IF list[k].id = userId
       THEN [list[k] EXCEPT !.balance = IF isUnlimited THEN Infinity ELSE amount,
                            !.isUnlimited = isUnlimited]
       ELSE list[k]]

\* the recharge button of row userId is pressed and the prompt answered with
\* text ("inf" is <<"i","n","f">>); up to handleRechargeUser's await
rechargeOnClick(userId, text) ==
  /\ UsersViewShown
  /\ userId \in UserIdsShown
  /\ Cardinality(rechProcs) < MaxPending
  /\ IF ToUpperCase(text) = <<"I","N","F">>
       THEN rechProcs' = rechProcs \cup
              {[userId |-> userId, amount |-> UnlimitedStoreBalance,
                isUnlimited |-> TRUE]}
       ELSE IF ~IsNaN(ParseFloat(text))
         THEN rechProcs' = rechProcs \cup
                {[userId |-> userId, amount |-> ParseFloat(text),
                  isUnlimited |-> FALSE]}
         ELSE UNCHANGED rechProcs
  /\ UNCHANGED <<storeVars, users, currentUser, currentView, transactions,
                 formVars, loginVars, flowVars, fetchVars, notification,
                 addProcs, delProcs, timers, now, otherTab, histVars, idVars>>

\* handleRechargeUser: the store update is answered
handleRechargeUser(proc, ok) ==
  /\ proc \in rechProcs
  /\ rechProcs' = rechProcs \ {proc}
  /\ IF ok
       THEN /\ dbUsers' = StoreUpdateUser(dbUsers, proc.userId,
                 [balance |-> IF proc.isUnlimited THEN UnlimitedStoreBalance
                                                  ELSE proc.amount,
                  is_unlimited |-> proc.isUnlimited])
            /\ users' = withRecharge(users, proc.userId, proc.amount,
                                     proc.isUnlimited)
            /\ notification' = SuccessNote(MsgRecharged)
       ELSE /\ notification' = ErrorNote(MsgRechargeFailed \o StoreError)
            /\ UNCHANGED <<dbUsers, users>>
  /\ UNCHANGED <<dbTx, currentUser, currentView, transactions, formVars,
                 loginVars, flowVars, fetchVars, addProcs, delProcs, timers,
                 now, otherTab, histVars, idVars>>

\* ---------------------------------------------------------- specifications
\* startup, common to the specifications
Startup ==
  \/ \E o \in {"data", "error", "throw"} : fetchUsersReply(o)
  \/ \E ok \in BOOLEAN : fetchSeedReply(ok)
  \/ \E ok \in BOOLEAN : fetchTxExecute(ok)
  \/ fetchTxReceive

\* The transfer flow: sessions of the stored accounts, the transfer form with
\* every kind of field value, settlement, commit and the notification timer.
RecipientInputs == { <<>>, <<"1">> }
IbanInputs == { <<>>, <<"n","l"," ","2","8">> }
AmountInputs == { <<"0">>, <<"3","0">>, <<"1","0","1">> }

NextTransfer ==
  \/ Startup
  \/ \E c \in { <<"admin", "admin">>, <<"e1", "pw">>, <<"e1", "admin">> } :
       handleLoginAttempt(c[1], c[2])
  \/ handleLogout
  \/ \E v \in View : navigate(v)
  \/ \E r \in RecipientInputs, i \in IbanInputs, a \in AmountInputs :
       handleTransferSubmit(r, i, a)
  \/ handleAnimationComplete
  \/ \E ok \in BOOLEAN : syncInsertReply(ok)
  \/ \E ok \in BOOLEAN : syncUpdateReply(ok)
  \/ notificationTimeout

SpecTransfer == Init /\ [][NextTransfer]_vars

\* The cooldown: the transfer flow with two valid IBANs and one amount, while
\* time passes in steps of 4 h - 1 s and of 1 s.
CooldownRecipients == { <<"1">>, <<"5">> }
CooldownIbans == { <<>> }
CooldownAmounts == { <<"3","0">> }

NextCooldown ==
  \/ Startup
  \/ \E c \in { <<"e1", "pw">>, <<"e1", "admin">> } :
       handleLoginAttempt(c[1], c[2])
  \/ handleLogout
  \/ \E v \in View : navigate(v)
  \/ \E r \in CooldownRecipients, i \in CooldownIbans, a \in CooldownAmounts :
       handleTransferSubmit(r, i, a)
  \/ handleAnimationComplete
  \/ \E ok \in BOOLEAN : syncInsertReply(ok)
  \/ \E ok \in BOOLEAN : syncUpdateReply(ok)
  \/ \E d \in {TickShort, TickLong} : Tick(d)

SpecCooldown == Init /\ [][NextCooldown]_vars

\* IBAN validation: the transfer form submitted with IBAN texts of every
\* shape around the rule (case, blanks, punctuation, leading digits, lengths
\* on both sides of 15), with and without the other two fields.  Each probe
\* fills the empty form: the typed fields replace whatever the form held.
Fill(c, n) == [k \in 1..n |-> c]
IbanPrefixes == { <<>>, <<"N">>, <<"N","L">>, <<"n","l">>, <<"N","1">>,
                  <<"1","L">>, <<" ","N","L">>, <<"N","-">> }
IbanBodyLengths == {0, 1} \cup (11..MaxIbanBody)
IbanSuffixes == { <<>>, <<"Z">>, <<"z">>, <<"9">>, <<"-">>, <<" ">> }
IbanProbes ==
  { p \o Fill("4", n) \o x :
      p \in IbanPrefixes, n \in IbanBodyLengths, x \in IbanSuffixes }
ProbeRecipients == { <<>>, <<"A">> }
ProbeAmounts == { <<>>, <<"3","0">> }

NextIban ==
  \/ Startup
  \/ \E c \in { <<"admin", "admin">>, <<"e1", "pw">> } :
       handleLoginAttempt(c[1], c[2])
  \/ \E v \in View : navigate(v)
  \/ /\ transferData = EmptyTransfer
     /\ \E r \in ProbeRecipients, i \in IbanProbes, a \in ProbeAmounts :
          handleTransferSubmit(r, i, a)

SpecIban == Init /\ [][NextIban]_vars

\* Accounts: sessions of stored and of newly created accounts, provisioning
\* with every kind of form, and deletion.
newUserForm(name, username, role, balance, isUnlimited) ==
  [name |-> name, username |-> username, password |-> "pw", role |-> role,
   balance |-> balance, isUnlimited |-> isUnlimited]
AddUserInputs ==
  { newUserForm("N", "m1", "manager", <<"5","0">>, FALSE),
    newUserForm("N", "e2", "employee", <<"5","0">>, FALSE),
    newUserForm("N", "e2", "employee", <<"5","1">>, FALSE),
    newUserForm("N", "e2", "accountant", <<>>, TRUE),
    newUserForm("N", "e2", "employee", <<>>, FALSE),
    newUserForm("", "e2", "employee", <<"5","0">>, FALSE),
    newUserForm("N", "admin", "employee", <<"5","0">>, FALSE),
    newUserForm("N", "e2", "employee", <<"-","1">>, FALSE),
    newUserForm("N", "e2", "employee", <<"x">>, FALSE) }
AccountLogins ==
  { <<"admin", "admin">>, <<"admin", "pw">>, <<"e1", "pw">>, <<"m1", "pw">>,
    <<"e2", "pw">>, <<"zz", "pw">> }
GeneratedUserIds == { <<"U-", n>> : n \in 0..MaxNewUsers }
AllUserIds == { initialAdmin.id } \cup GeneratedUserIds

NextAccounts ==
  \/ Startup
  \/ \E c \in AccountLogins : handleLoginAttempt(c[1], c[2])
  \/ handleLogout
  \/ \E v \in View : navigate(v)
  \/ \E f \in AddUserInputs : handleAddUser(f)
  \/ \E proc \in addProcs, ok \in BOOLEAN : syncUserInsertReply(proc, ok)
  \/ \E id \in AllUserIds, confirmed \in BOOLEAN : handleDeleteUser(id, confirmed)
  \/ \E id \in AllUserIds, ok \in BOOLEAN : deleteReply(id, ok)

SpecAccounts == Init /\ [][NextAccounts]_vars

\* Sessions and the account directory: every kind of login attempt, against
\* accounts loaded at startup, created in the session and deleted in it.
DirectoryInputs ==
  { newUserForm("N", "m1", "manager", <<"5","0">>, FALSE),
    newUserForm("N", "e2", "employee", <<"5","0">>, FALSE),
    newUserForm("N", "e2", "accountant", <<>>, TRUE) }

NextDirectory ==
  \/ \E o \in {"data", "error", "throw"} : fetchUsersReply(o)
  \/ \E ok \in BOOLEAN : fetchSeedReply(ok)
  \/ \E c \in AccountLogins : handleLoginAttempt(c[1], c[2])
  \/ handleLogout
  \/ navigate("users")
  \/ \E f \in DirectoryInputs :
       Cardinality(addProcs) < MaxPending /\ handleAddUser(f)
  \/ \E proc \in addProcs, ok \in BOOLEAN : syncUserInsertReply(proc, ok)
  \/ \E id \in AllUserIds, confirmed \in BOOLEAN : handleDeleteUser(id, confirmed)
  \/ \E id \in AllUserIds, ok \in BOOLEAN : deleteReply(id, ok)

SpecDirectory == Init /\ [][NextDirectory]_vars

\* Recharges: a manager answers the recharge prompt of any row with "inf", a
\* number, a negative number or text that is no number.
RechargeTexts ==
  { <<"i","n","f">>, <<"I","n","f">>, <<"5","0">>, <<"0">>, <<"-","5">>, <<"x">> }

NextRecharge ==
  \/ \E o \in {"data", "error", "throw"} : fetchUsersReply(o)
  \/ \E ok \in BOOLEAN : fetchSeedReply(ok)
  \/ \E c \in { <<"admin", "admin">>, <<"e1", "pw">> } :
       handleLoginAttempt(c[1], c[2])
  \/ handleLogout
  \/ \E v \in View : navigate(v)
  \/ \E id \in AllUserIds, text \in RechargeTexts : rechargeOnClick(id, text)
  \/ \E proc \in rechProcs, ok \in BOOLEAN : handleRechargeUser(proc, ok)

SpecRecharge == Init /\ [][NextRecharge]_vars

\* Onboarding: a manager provisions accounts, which then log in and transfer.
OnboardingAmounts == { <<"3","0">>, <<"5","0">> }

NextOnboarding ==
  \/ \E o \in {"data", "error", "throw"} : fetchUsersReply(o)
  \/ \E ok \in BOOLEAN : fetchSeedReply(ok)
  \/ \E c \in { <<"admin", "admin">>, <<"m1", "pw">>, <<"e2", "pw">> } :
       handleLoginAttempt(c[1], c[2])
  \/ handleLogout
  \/ \E v \in View : navigate(v)
  \/ \E f \in DirectoryInputs : handleAddUser(f)
  \/ \E proc \in addProcs, ok \in BOOLEAN : syncUserInsertReply(proc, ok)
  \/ \E a \in OnboardingAmounts : handleTransferSubmit(<<"1">>, <<>>, a)
  \/ handleAnimationComplete
  \/ \E ok \in BOOLEAN : syncInsertReply(ok)
  \/ \E ok \in BOOLEAN : syncUpdateReply(ok)

SpecOnboarding == Init /\ [][NextOnboarding]_vars

\* Two tabs: the stored employee is logged in in both and transfers in both.
TabAmounts == { <<"5","0">>, <<"6","0">> }

NextTabs ==
  \/ \E o \in {"data", "error", "throw"} : fetchUsersReply(o)
  \/ \E ok \in BOOLEAN : fetchSeedReply(ok)
  \/ handleLoginAttempt("e1", "pw")
  \/ handleLogout
  \/ \E a \in TabAmounts : handleTransferSubmit(<<"1">>, <<>>, a)
  \/ handleAnimationComplete
  \/ \E ok \in BOOLEAN : syncInsertReply(ok)
  \/ \E ok \in BOOLEAN : syncUpdateReply(ok)
  \/ otherTabLogin("e1", "pw")
  \/ \E a \in TabAmounts : otherTabTransfer(a)
  \/ \E ok \in BOOLEAN : otherTabInsertReply(ok)
  \/ \E ok \in BOOLEAN : otherTabUpdateReply(ok)

SpecTabs == Init /\ [][NextTabs]_vars

\* Settlement: one valid transfer form, sessions changing during the flow; the
\* settlement timer fires when it is pending, and the store answers the calls
\* it was sent.  The user's actions are under no fairness: the user may stop.
SettlementAmounts == { <<"3","0">> }

NextSettlement ==
  \/ \E o \in {"data", "error", "throw"} : fetchUsersReply(o)
  \/ \E ok \in BOOLEAN : fetchSeedReply(ok)
  \/ \E c \in { <<"admin", "admin">>, <<"e1", "pw">> } :
       handleLoginAttempt(c[1], c[2])
  \/ handleLogout
  \/ \E v \in View : navigate(v)
  \/ \E a \in SettlementAmounts : handleTransferSubmit(<<"1">>, <<>>, a)
  \/ handleAnimationComplete
  \/ \E ok \in BOOLEAN : syncInsertReply(ok)
  \/ \E ok \in BOOLEAN : syncUpdateReply(ok)

SpecSettlement ==
  /\ Init
  /\ [][NextSettlement]_vars
  /\ WF_vars(handleAnimationComplete)
  /\ WF_vars(\E ok \in BOOLEAN : syncInsertReply(ok))
  /\ WF_vars(\E ok \in BOOLEAN : syncUpdateReply(ok))

\* Validation: the transfer form submitted with fields that fail each rule,
\* alone and together, before and after a committed transfer.
ValidationRecipients == { <<>>, <<"A">>, <<"1">> }
ValidationIbans == { <<>>, <<"N","L","2","8">> }
ValidationAmounts == { <<>>, <<"0">>, <<"x">>, <<"3","0">>, <<"1","0","1">> }

NextValidation ==
  \/ \E o \in {"data", "error", "throw"} : fetchUsersReply(o)
  \/ \E ok \in BOOLEAN : fetchSeedReply(ok)
  \/ \E c \in { <<"admin", "admin">>, <<"e1", "pw">> } :
       handleLoginAttempt(c[1], c[2])
  \/ navigate("transfer")
  \/ \E r \in ValidationRecipients, i \in ValidationIbans,
        a \in ValidationAmounts : handleTransferSubmit(r, i, a)
  \/ handleAnimationComplete
  \/ \E ok \in BOOLEAN : syncInsertReply(ok)
  \/ \E ok \in BOOLEAN : syncUpdateReply(ok)

SpecValidation == Init /\ [][NextValidation]_vars

\* Unlimited accounts: a manager makes accounts unlimited or limited by
\* recharging them, and managers and employees transfer.
UnlimitedTexts == { <<"i","n","f">>, <<"5","0">> }
UnlimitedAmounts == { <<"1","0","1">> }

NextUnlimited ==
  \/ \E o \in {"data", "error", "throw"} : fetchUsersReply(o)
  \/ \E ok \in BOOLEAN : fetchSeedReply(ok)
  \/ \E c \in { <<"admin", "admin">>, <<"e1", "pw">> } :
       handleLoginAttempt(c[1], c[2])
  \/ handleLogout
  \/ \E v \in {"users", "transfer"} : navigate(v)
  \/ \E text \in UnlimitedTexts : rechargeOnClick(storedEmployee.id, text)
  \/ \E proc \in rechProcs, ok \in BOOLEAN : handleRechargeUser(proc, ok)
  \/ \E a \in UnlimitedAmounts : handleTransferSubmit(<<"1">>, <<>>, a)
  \/ handleAnimationComplete
  \/ \E ok \in BOOLEAN : syncInsertReply(ok)
  \/ \E ok \in BOOLEAN : syncUpdateReply(ok)

SpecUnlimited == Init /\ [][NextUnlimited]_vars

\* Views: sessions of every role, one after the other, navigating, and the
\* account operations of the users view, answered by the store without error.
NextViews ==
  \/ fetchUsersReply("data")
  \/ fetchSeedReply(TRUE)
  \/ \E c \in { <<"admin", "admin">>, <<"e1", "pw">>, <<"e2", "pw">> } :
       handleLoginAttempt(c[1], c[2])
  \/ handleLogout
  \/ \E v \in View : navigate(v)
  \/ \E f \in DirectoryInputs :
       Cardinality(addProcs) < MaxPending /\ handleAddUser(f)
  \/ \E proc \in addProcs : syncUserInsertReply(proc, TRUE)
  \/ \E id \in AllUserIds : handleDeleteUser(id, TRUE)
  \/ \E id \in AllUserIds : deleteReply(id, TRUE)
  \/ rechargeOnClick(storedEmployee.id, <<"i","n","f">>)
  \/ \E proc \in rechProcs : handleRechargeUser(proc, TRUE)

SpecViews == Init /\ [][NextViews]_vars

\* Reload: one client with one session, of the manager or of the employee, a
\* store that answers every call without error, and every operation:
\* transfers, provisioning, recharges and deletions.
NextReload ==
  \/ fetchUsersReply("data")
  \/ fetchSeedReply(TRUE)
  \/ \E c \in { <<"admin", "admin">>, <<"e1", "pw">> } :
       handleLoginAttempt(c[1], c[2])
  \/ \E v \in {"users", "transfer"} : navigate(v)
  \/ \E f \in DirectoryInputs :
       Cardinality(addProcs) < MaxPending /\ handleAddUser(f)
  \/ \E proc \in addProcs : syncUserInsertReply(proc, TRUE)
  \/ \E id \in AllUserIds : handleDeleteUser(id, TRUE)
  \/ \E id \in AllUserIds : deleteReply(id, TRUE)
  \/ \E id \in {initialAdmin.id, storedEmployee.id}, text \in UnlimitedTexts :
       rechargeOnClick(id, text)
  \/ \E proc \in rechProcs : handleRechargeUser(proc, TRUE)
  \/ \E a \in SettlementAmounts : handleTransferSubmit(<<"1">>, <<>>, a)
  \/ handleAnimationComplete
  \/ syncInsertReply(TRUE)
  \/ syncUpdateReply(TRUE)

SpecReload == Init /\ [][NextReload]_vars

\* syncUserUpdateReply is in no specification: the creator's balance update is
\* never issued, because only a manager's session shows the provisioning form
UpdateNeverIssued == \A proc \in addProcs : proc.pc = "insert"

\* ------------------------------------------------------------------ claims
\* a step that ends a constrained user's commit with both writes done
CommitSucceeds ==
  /\ syncPc = "update"
  /\ syncPc' = "idle"
  /\ notification' = SuccessNote(MsgTransferDone)

\* C1: when the commit of a transfer of amount A by a constrained user with
\* balance B succeeds, that user's session balance, its entry in the user list
\* and its stored balance are B - A, and exactly one transaction with amount A,
\* status completed and createdBy that user is added, first in the list.
C1_TransferDebitsAndRecords ==
  [][ CommitSucceeds =>
        LET u == syncCtx.user
            A == ParseFloat(transferData.amount)
            B == u.balance
        IN  /\ Constrained(u)
            /\ (currentUser.id = u.id => currentUser'.balance = B - A)
            /\ \A k \in 1..Len(users') :
                 users'[k].id = u.id => users'[k].balance = B - A
            /\ \A k \in 1..Len(dbUsers') :
                 dbUsers'[k].id = u.id => dbUsers'[k].balance = B - A
            /\ Len(transactions') = Len(transactions) + 1
            /\ Tail(transactions') = transactions
            /\ Head(transactions').amount = A
            /\ Head(transactions').status = "completed"
            /\ Head(transactions').createdBy = u.username ]_vars

C1_Witness ==
  /\ notification = SuccessNote(MsgTransferDone)
  /\ currentUser.username = "e1"
  /\ currentUser.balance = EmployeeBalance - 30
  /\ Len(transactions) = 1
  /\ transactions[1].amount = 30
  /\ transactions[1].createdBy = "e1"
  /\ \E k \in 1..Len(users) :
       users[k].username = "e1" /\ users[k].balance = EmployeeBalance - 30
  /\ \E k \in 1..Len(dbUsers) :
       dbUsers[k].username = "e1" /\ dbUsers[k].balance = EmployeeBalance - 30

\* a step of handleTransferSubmit: the transfer form is on screen and the step
\* changes nothing but what that handler writes
TransferSubmitStep ==
  /\ TransferFormShown
  /\ UNCHANGED <<storeVars, users, currentUser, currentView, transactions,
                 newUserData, loginVars, syncPc, syncCtx, fetchVars, procVars,
                 timers, now, otherTab, hCompleted, idVars>>

\* a submission by a constrained session of an amount above its balance
OverBalanceSubmit ==
  /\ TransferSubmitStep
  /\ Constrained(currentUser)
  /\ NumGt(ParseFloat(transferData'.amount), currentUser.balance)
  /\ \E r \in RecipientInputs, i \in IbanInputs, a \in AmountInputs :
       handleTransferSubmit(r, i, a)

\* nothing of a commit has started and no balance or transaction has changed
NoTransferEffect ==
  /\ ~isSubmitting'
  /\ ~showAnimation'
  /\ syncPc' = "idle"
  /\ UNCHANGED <<dbTx, dbUsers, users, currentUser, transactions>>

\* C2 as stated: a constrained session's submission of an amount above its
\* balance is rejected with the insufficient-balance message, with no
\* settlement, no insert and no balance change.
C2_AsStated ==
  [][ OverBalanceSubmit =>
        notification' = ErrorNote(MsgBalance) /\ NoTransferEffect ]_vars

\* the rules handleTransferSubmit checks before the balance rule all pass
EarlierRulesPass(d, user, txs, t) ==
  /\ ~MissingField(d)
  /\ ~BadIban(d.iban)
  /\ ~BadAmount(ParseFloat(d.amount))
  /\ ~(user.role = "employee" /\ RecentTx(txs, d.iban, user.username, t))

\* C2 amended: such a submission is always rejected with an error and without
\* any settlement, insert or balance change; the message is the
\* insufficient-balance one whenever the earlier rules (required fields, IBAN
\* format, amount, cooldown) pass.
C2_OverBalanceRejected ==
  [][ OverBalanceSubmit =>
        /\ notification'.type = "error"
        /\ NoTransferEffect
        /\ (EarlierRulesPass(transferData', currentUser, transactions, now)
              => notification' = ErrorNote(MsgBalance)) ]_vars

C2_Witness ==
  /\ notification = ErrorNote(MsgBalance)
  /\ Constrained(currentUser)
  /\ LoggedIn
  /\ NumGt(ParseFloat(transferData.amount), currentUser.balance)
  /\ ~isSubmitting
  /\ dbTx = <<>>

\* C9: every transaction the client inserts is attributed to the user whose
\* session submitted it and carries the validated recipient, IBAN and amount,
\* and a balance changed by the commit is that same user's, whatever happens
\* between the acceptance of the submission and the commit.
C9_CommitBelongsToSubmitter ==
  [][ /\ Len(dbTx') > Len(dbTx) =>
           LET row == dbTx'[Len(dbTx')] IN
             /\ row.created_by = hSubmitted.user.username
             /\ row.recipient_name = hSubmitted.data.recipientName
             /\ row.iban = hSubmitted.data.iban
             /\ row.amount = ParseFloat(hSubmitted.data.amount)
      /\ \A k \in 1..Len(dbUsers) :
           (k <= Len(dbUsers') /\ dbUsers'[k].balance # dbUsers[k].balance)
             => dbUsers[k].id = hSubmitted.user.id
      /\ \A k \in 1..Len(users) :
           (k <= Len(users') /\ users'[k].balance # users[k].balance)
             => users[k].id = hSubmitted.user.id
      /\ (currentUser'.id = currentUser.id
          /\ currentUser'.balance # currentUser.balance)
             => currentUser.id = hSubmitted.user.id ]_vars

\* milliseconds of a timestamp
FromISOString(d) ==
  d[1] * 86400000 + d[2] * 3600000 + d[3] * 60000 + d[4] * 1000 + d[5]

\* the ages, at time t, of the transfers user completed to iban
TransferAges(user, iban, t) ==
  { t - FromISOString(hCompleted[k].date) :
      k \in {j \in 1..Len(hCompleted) :
               hCompleted[j].iban = iban /\ hCompleted[j].createdBy = user.username} }

\* an employee's submission that passes the rules checked before the cooldown
EmployeeSubmit(r, i, a) ==
  /\ handleTransferSubmit(r, i, a)
  /\ currentUser.role = "employee"
  /\ ~MissingField(transferData')
  /\ ~BadIban(transferData'.iban)
  /\ ~BadAmount(ParseFloat(transferData'.amount))

\* C3: an employee's submission to an IBAN is rejected with the cooldown
\* message when that user completed a transfer to the IBAN less than 4 hours
\* earlier, and is not rejected by the cooldown rule when every such transfer
\* is at least 4 hours and 1 second old.
C3_CooldownEnforced ==
  [][ \A r \in CooldownRecipients, i \in CooldownIbans, a \in CooldownAmounts :
        EmployeeSubmit(r, i, a) =>
          LET ages == TransferAges(currentUser, transferData'.iban, now) IN
            /\ (\E g \in ages : g < FourHoursMs)
                 => notification' = ErrorNote(MsgCooldown)
            /\ (\A g \in ages : g >= FourHoursMs + 1000)
                 => notification' # ErrorNote(MsgCooldown) ]_vars

\* two upper-case letters, then upper-case letters and digits, 15 or more in all
WellFormedIban(s) ==
  /\ Len(s) >= 15
  /\ \A k \in 1..Len(s) :
       IF k <= 2 THEN s[k] \in Upper ELSE s[k] \in (Upper \cup Digit)

\* C4 as stated: the IBAN field is accepted exactly when it is well formed,
\* and with any other IBAN value the submission is rejected with the
\* IBAN-format message.
C4_AsStated ==
  [][ TransferSubmitStep =>
        IF WellFormedIban(transferData'.iban)
          THEN notification' # ErrorNote(MsgIban)
          ELSE notification' = ErrorNote(MsgIban) /\ ~isSubmitting' ]_vars

\* C4 amended: the IBAN field is accepted exactly when it is well formed; with
\* any other IBAN value the submission is rejected, with the IBAN-format
\* message when recipient, IBAN and amount are all non-blank and with the
\* required-fields message when one of them is blank.
C4_IbanRule ==
  [][ TransferSubmitStep =>
        IF WellFormedIban(transferData'.iban)
          THEN notification' # ErrorNote(MsgIban)
          ELSE /\ ~isSubmitting'
               /\ ~showAnimation'
               /\ notification' =
                    IF MissingField(transferData') THEN ErrorNote(MsgRequired)
                                                   ELSE ErrorNote(MsgIban) ]_vars

C4_Witness ==
  /\ notification = ErrorNote(MsgIban)
  /\ Len(transferData.iban) = 14
  /\ \A k \in 1..14 :
       IF k <= 2 THEN transferData.iban[k] \in Upper
                 ELSE transferData.iban[k] \in (Upper \cup Digit)

\* C5: createAccount for a new non-unlimited account whose allocation exceeds
\* the finite balance of the creating session is rejected with no state
\* change: nothing is sent to the store, and the creator's balance and the
\* user list stay as they were.
C5_OverAllocationRejected ==
  [][ \A f \in AddUserInputs :
        ( /\ handleAddUser(f)
          /\ ~f.isUnlimited
          /\ currentUser.balance # Infinity
          /\ NumGt(ParseFloat(f.balance), currentUser.balance) )
        => /\ notification'.type = "error"
           /\ UNCHANGED <<addProcs, dbUsers, users, currentUser, userIds>> ]_vars

\* C6: when createAccount by a creator with a finite balance B and an
\* allocation a <= B succeeds, the new row is in the store and the creator's
\* balance is B - a in the store and in the session (0 when a = B).
C6_CreatorDebited ==
  [][ \A proc \in addProcs :
        ( /\ proc \notin addProcs'
          /\ Len(users') = Len(users) + 1
          /\ proc.creator.balance # Infinity
          /\ NumLe(proc.allocated, proc.creator.balance) )
        => /\ \E k \in 1..Len(dbUsers') : dbUsers'[k].id = proc.created.id
           /\ \A k \in 1..Len(dbUsers') :
                dbUsers'[k].id = proc.creator.id
                  => dbUsers'[k].balance = proc.creator.balance - proc.allocated
           /\ currentUser.id = proc.creator.id
                => currentUser'.balance = proc.creator.balance - proc.allocated
      ]_vars

\* the loaded user list holds an account with this username and password
AccountExists(u, p) ==
  \E k \in 1..Len(users) : users[k].username = u /\ users[k].password = p

\* C7: authenticate(u, p) succeeds exactly when the loaded user list holds an
\* account with that username and that password; the session then is such an
\* account and the view is transfer for an employee, overview otherwise.
C7_Authenticate ==
  [][ \A c \in AccountLogins :
        handleLoginAttempt(c[1], c[2]) =>
          /\ (currentUser' # NoUser) <=> AccountExists(c[1], c[2])
          /\ currentUser' # NoUser =>
               /\ currentUser'.username = c[1]
               /\ currentUser'.password = c[2]
               /\ \E k \in 1..Len(users) : users[k] = currentUser'
               /\ currentView' = IF currentUser'.role = "employee"
                                   THEN "transfer" ELSE "overview" ]_vars

C7_Witness ==
  /\ LoggedIn
  /\ currentUser.username = "e2"
  /\ currentUser.role = "employee"
  /\ currentView = "transfer"
  /\ loginError = ""

\* C8: a failed authenticate gives the same invalid-credentials message for an
\* unknown username as for a known one with a wrong password, establishes no
\* session and changes no other state.
C8_UniformFailure ==
  [][ \A c \in AccountLogins :
        (handleLoginAttempt(c[1], c[2]) /\ ~AccountExists(c[1], c[2])) =>
          /\ loginError' = MsgInvalidCredentials
          /\ currentUser' = NoUser
          /\ UNCHANGED <<storeVars, users, currentUser, currentView,
                         transactions, formVars, flowVars, fetchVars,
                         notification, procVars, timers, now, otherTab, idVars, histVars>>
      ]_vars

C8_Witness ==
  /\ loginError = MsgInvalidCredentials
  /\ ~LoggedIn
  /\ userIds > 0
  /\ \E k \in 1..Len(users) :
       /\ users[k].username = loginForm.username
       /\ users[k].password # loginForm.password

\* the ids an account list holds
IdsOf(list) == {list[k].id : k \in 1..Len(list)}

\* C10: deleteAccount called with the session's own id issues no store delete
\* and leaves the user list unchanged; an account leaves the user list only
\* when a delete that was confirmed for another id than the session's has
\* succeeded in the store; a declined confirmation or a store error changes
\* neither the user list nor the store.
C10_DeleteAccount ==
  [][ /\ \A id \in AllUserIds, confirmed \in BOOLEAN :
           handleDeleteUser(id, confirmed) =>
             /\ UNCHANGED <<dbUsers, users>>
             /\ (id = currentUser.id \/ ~confirmed) => UNCHANGED delProcs
             /\ id \in delProcs' \ delProcs => (confirmed /\ id # currentUser.id)
      /\ \A id \in IdsOf(users) \ IdsOf(users') :
           /\ id \in delProcs
           /\ id \notin delProcs'
           /\ id \notin IdsOf(dbUsers')
      /\ \A id \in delProcs' \ delProcs :
           UsersViewShown /\ id # currentUser.id
      /\ \A id \in AllUserIds :
           deleteReply(id, FALSE) => UNCHANGED <<dbUsers, users>> ]_vars

C10_Witness ==
  /\ notification = ErrorNote(MsgSelfDelete)
  /\ LoggedIn
  /\ currentUser.id \in IdsOf(users)
  /\ currentUser.id \in IdsOf(dbUsers)
  /\ Len(users) < userIds + 2

\* no two accounts of the loaded user list share a username
UniqueUsernames ==
  \A i, j \in 1..Len(users) : users[i].username = users[j].username => i = j

\* C11: usernames stay unique in the loaded user list after any sequence of
\* account provisioning, also when a form is submitted while an earlier
\* provisioning still awaits the store; and a createAccount whose username is
\* taken among the loaded users is rejected with no store write.
C11_UsernamesUnique ==
  [][ /\ UniqueUsernames'
      /\ \A f \in AddUserInputs :
           (handleAddUser(f) /\ UsernameTaken(users, f.username))
             => /\ notification'.type = "error"
                /\ UNCHANGED <<addProcs, dbUsers, users>> ]_vars

RECURSIVE AmountCreatedBy(_, _)
\* the sum of the amounts of the transaction rows created by username
AmountCreatedBy(rows, username) ==
  IF rows = <<>> THEN 0
  ELSE (IF Head(rows).created_by = username THEN Head(rows).amount ELSE 0)
       + AmountCreatedBy(Tail(rows), username)

\* C12: in every reachable state of the store, the amount of every
\* transaction row created by a non-manager, non-unlimited account has been
\* deducted from that account's stored balance: the stored balance is the
\* balance the account started with less the amounts of its rows.
C12_AmountsDeducted ==
  \A k \in 1..Len(dbUsers) :
     (dbUsers[k].role # "manager" /\ ~dbUsers[k].is_unlimited)
       => dbUsers[k].balance =
            EmployeeBalance - AmountCreatedBy(dbTx, dbUsers[k].username)

\* a balance that is non-negative or the unlimited sentinel
BalanceAllowed(b) == b = Infinity \/ b = UnlimitedStoreBalance \/ (b # NaN /\ b >= 0)

\* C13: in every reachable state each account's balance, in the user list, in
\* the session and in the store, is non-negative or the unlimited sentinel.
C13_BalancesNonNegative ==
  /\ \A k \in 1..Len(users) : BalanceAllowed(users[k].balance)
  /\ \A k \in 1..Len(dbUsers) : BalanceAllowed(dbUsers[k].balance)
  /\ LoggedIn => BalanceAllowed(currentUser.balance)

\* new is old with zero or more entries put in front of it
Prepended(old, new) ==
  /\ Len(new) >= Len(old)
  /\ SubSeq(new, Len(new) - Len(old) + 1, Len(new)) = old

\* C14: a transaction is immutable once created: no operation or store reply,
\* the startup transactions fetch completing late included, changes or removes
\* an entry of the transaction list; the list only grows, by prepending.
C14_TransactionsImmutable == [][ Prepended(transactions, transactions') ]_vars

\* a step on which syncUser ends with the account of proc added to the list
AccountCreated(proc) ==
  /\ proc \in addProcs
  /\ proc \notin addProcs'
  /\ Len(users') = Len(users) + 1
  /\ notification' = SuccessNote(MsgUserCreated)

\* a step on which performSync ends with the success notification
TransferCommitted ==
  /\ syncPc \in {"insert", "update"}
  /\ syncPc' = "idle"
  /\ notification' = SuccessNote(MsgTransferDone)

\* the account was provisioned in this run of the application
Provisioned(u) == u # NoUser /\ u.id \in GeneratedUserIds /\ u.id # storedEmployee.id

\* C15: an account created by a successful createAccount(u, p, role, b) can
\* authenticate in the same session with (u, p); the session then holds the
\* chosen role and balance b (unlimited when flagged); and its first transfer
\* of an amount a <= b leaves the balance b - a.
C15_CreatedAccountUsable ==
  [][ /\ \A proc \in addProcs :
           AccountCreated(proc) =>
             LET found == FindUser(proc.row.username, proc.row.password)'
             IN  /\ found # NoUser
                 /\ found.id = proc.created.id
                 /\ found.role = proc.row.role
                 /\ found.balance = IF proc.row.is_unlimited
                                      THEN Infinity ELSE proc.allocated
      /\ ( /\ TransferCommitted
           /\ Provisioned(syncCtx.user)
           /\ currentUser.id = syncCtx.user.id
           /\ AmountCreatedBy(dbTx, syncCtx.user.username) = 0 )
         => currentUser'.balance =
              NumMinus(syncCtx.user.balance, syncCtx.amountNum) ]_vars

\* the phase of the transfer flow; validation happens within the submit step
Phase ==
  IF ~isSubmitting THEN "Idle"
  ELSE IF showAnimation THEN "Settling"
  ELSE "Committing"

\* C16: a transfer attempt goes Idle, (validating) Settling, Committing, Idle
\* in that order only; no store call is pending before settling has completed;
\* the commit starts exactly when settling completes; and while an attempt is
\* settling or committing nothing is submitted: the form, the accepted
\* submission and the number of attempts stay as they are.
C16_PhaseOrder ==
  [][ /\ Phase' # Phase =>
           <<Phase, Phase'>> \in { <<"Idle", "Settling">>,
                                   <<"Settling", "Committing">>,
                                   <<"Committing", "Idle">> }
      /\ (Phase' # "Committing") <=> (syncPc' = "idle")
      /\ (syncPc = "idle" /\ syncPc' # "idle") =>
           (Phase = "Settling" /\ Phase' = "Committing" /\ syncPc' = "insert")
      /\ Phase = "Settling" =>
           UNCHANGED <<storeVars, transferData, hSubmitted>>
      /\ (Phase = "Settling" /\ Phase' = "Settling") => UNCHANGED txIds
      /\ Phase = "Committing" => UNCHANGED txIds
      /\ (Phase = "Committing" /\ Phase' = "Committing") =>
           UNCHANGED <<transferData, hSubmitted, syncCtx>> ]_vars

C16_Witness ==
  /\ Phase = "Committing"
  /\ syncPc = "update"
  /\ Len(dbTx) = 1
  /\ hSubmitted # NoSubmission
  /\ transferData = hSubmitted.data

\* a step on which performSync's catch block reports a failed write
WriteFailed ==
  /\ syncPc # "idle"
  /\ notification' = ErrorNote(MsgSyncError \o StoreError)
  /\ notification' # notification

\* C17: an accepted submission causes at most one transaction insert and at
\* most one balance update to be sent to the store, whether they succeed or
\* fail and however the settlement timer is restarted; a failed write ends the
\* attempt and nothing is sent again.
C17_WritesSentOnce ==
  [][ /\ hWrites'.inserts <= 1
      /\ hWrites'.updates <= 1
      /\ WriteFailed =>
           /\ syncPc' = "idle"
           /\ ~isSubmitting'
           /\ ~showAnimation'
           /\ UNCHANGED <<storeVars, hWrites>> ]_vars

C17_Witness ==
  /\ hWrites = [inserts |-> 1, updates |-> 1]
  /\ notification = ErrorNote(MsgSyncError \o StoreError)
  /\ ~isSubmitting
  /\ syncPc = "idle"
  /\ Len(dbTx) = 1

\* a step on which a commit ends without having been reported successful
CommitFailed ==
  /\ syncPc # "idle"
  /\ syncPc' = "idle"
  /\ hCompleted' = hCompleted

\* C18: when the transaction insert or the balance update fails, the attempt
\* ends with an error notification that carries the store's error message, the
\* form is editable again with its contents kept, and the session balance,
\* the user list and the transaction list are unchanged.
C18_FailedCommit ==
  [][ CommitFailed =>
        /\ notification' = ErrorNote(MsgSyncError \o StoreError)
        /\ ~isSubmitting'
        /\ ~showAnimation'
        /\ transferData' = transferData
        /\ transferData' # EmptyTransfer
        /\ UNCHANGED <<currentUser, users, transactions>> ]_vars

C18_Witness ==
  /\ notification = ErrorNote(MsgSyncError \o StoreError)
  /\ TransferFormShown
  /\ transferData # EmptyTransfer
  /\ hWrites = [inserts |-> 1, updates |-> 0]
  /\ dbTx = <<>>
  /\ transactions = <<>>

\* the store holds a balance debited by more than the account's rows amount to:
\* a balance updated while no transaction row was inserted
OverDeducted ==
  \E k \in 1..Len(dbUsers) :
     /\ dbUsers[k].role # "manager"
     /\ ~dbUsers[k].is_unlimited
     /\ dbUsers[k].balance <
          EmployeeBalance - AmountCreatedBy(dbTx, dbUsers[k].username)

\* C19 as stated, for the second partial state: a commit that failed with no
\* transaction row inserted (the insert was refused, no update was sent) has
\* left the balance updated.
C19_AsStated ==
  (/\ syncPc = "idle"
   /\ hWrites = [inserts |-> 1, updates |-> 0]
   /\ notification = ErrorNote(MsgSyncError \o StoreError))
  => OverDeducted

\* C19 amended: a failed commit can leave the transaction row inserted while
\* the balance is not updated, and only that: the balance update is sent and
\* applied only after the row has been inserted, so no balance is ever updated
\* without its row.
C19_OnlyRowWithoutDebit ==
  [][ /\ ~OverDeducted'
      /\ (syncPc' = "update" \/ (syncPc = "update" /\ dbUsers' # dbUsers)) =>
           \E k \in 1..Len(dbTx') : dbTx'[k].id = syncCtx.tx[1].id ]_vars

C19_Witness ==
  /\ syncPc = "idle"
  /\ ~isSubmitting
  /\ notification = ErrorNote(MsgSyncError \o StoreError)
  /\ \E k \in 1..Len(dbTx) : dbTx[k].created_by = "e1" /\ dbTx[k].amount = 30
  /\ \E k \in 1..Len(dbUsers) :
       dbUsers[k].username = "e1" /\ dbUsers[k].balance = EmployeeBalance
  /\ transactions = <<>>

\* ---------------------------------------------------------------- C20
\* the balance the store holds for the account named username
StoredBalance(username) ==
  LET k == CHOOSE i \in 1..Len(dbUsers) : dbUsers[i].username = username
  IN  dbUsers[k].balance

\* both tabs hold a session of the same constrained account, this tab has
\* committed one transfer and the other tab one too, and both computed their
\* debit from the same loaded balance
TabsRaced ==
  /\ otherTab.pc = "done"
  /\ Len(hCompleted) = 1
  /\ hCompleted[1].createdBy = otherTab.user.username
  /\ Constrained(otherTab.user)
  /\ \E k \in 1..Len(users) :
       /\ users[k].id = otherTab.user.id
       /\ users[k].balance + hCompleted[1].amount = otherTab.user.balance

\* C20: when two tabs of the same constrained user loaded the same balance B
\* and both committed, of A1 and of A2, both transaction rows are recorded
\* and the stored balance is B - A1 or B - A2: one debit is lost.
C20_LostUpdate ==
  TabsRaced =>
    LET B  == otherTab.user.balance
        A1 == hCompleted[1].amount
        A2 == otherTab.amountNum
        u  == otherTab.user.username
    IN  /\ \E i \in 1..Len(dbTx) :
             /\ dbTx[i].id = hCompleted[1].id
             /\ dbTx[i].created_by = u
             /\ dbTx[i].amount = A1
        /\ \E j \in 1..Len(dbTx) :
             /\ dbTx[j].id = <<"TX-", 0 - 1>>
             /\ dbTx[j].created_by = u
             /\ dbTx[j].amount = A2
        /\ StoredBalance(u) \in {B - A1, B - A2}
        /\ StoredBalance(u) # B - A1 - A2
        /\ AmountCreatedBy(dbTx, u) >= A1 + A2

\* both tabs committed from the same balance, the other tab's debit is the
\* one kept, and the committed amounts together exceed the balance
C20_Witness ==
  /\ TabsRaced
  /\ hCompleted[1].amount # otherTab.amountNum
  /\ StoredBalance(otherTab.user.username)
       = otherTab.user.balance - otherTab.amountNum
  /\ hCompleted[1].amount + otherTab.amountNum > otherTab.user.balance

\* the same race, with this tab's debit kept
C20_WitnessFirst ==
  /\ TabsRaced
  /\ hCompleted[1].amount # otherTab.amountNum
  /\ StoredBalance(otherTab.user.username)
       = otherTab.user.balance - hCompleted[1].amount
  /\ hCompleted[1].amount + otherTab.amountNum > otherTab.user.balance

\* ---------------------------------------------------------------- C21
\* C21: once a submission has passed validation and settling has started, the
\* settlement completes and the commit is attempted, whatever the user does
\* meanwhile (switching views, logout, login).
C21_SettlementCompletes == showAnimation ~> (syncPc = "insert")

\* the same while the session is kept
C21_WhileLoggedIn == (showAnimation /\ LoggedIn) ~> (syncPc = "insert" \/ ~LoggedIn)

\* ---------------------------------------------------------------- C22
\* the flow leaves the submitting state only on the store's answer that ends
\* the commit, with a success or an error notification
SubmittingUntilAnswered ==
  [][ (isSubmitting /\ ~isSubmitting') =>
        /\ syncPc # "idle"
        /\ syncPc' = "idle"
        /\ notification' \in {SuccessNote(MsgTransferDone),
                              ErrorNote(MsgSyncError \o StoreError)} ]_vars

\* C22: from the moment a submission is accepted the flow stays submitting
\* until the store has answered the commit writes, and when every store call
\* is answered the flow returns to Idle with a success or error notification.
C22_ReturnsToIdle ==
  /\ SubmittingUntilAnswered
  /\ isSubmitting ~> ~isSubmitting

\* the same from the first store call of the commit on
C22_FromCommit ==
  /\ SubmittingUntilAnswered
  /\ [](syncPc # "idle" => isSubmitting)
  /\ (syncPc # "idle") ~> ~isSubmitting

\* ---------------------------------------------------------------- C23
\* C23: a transfer submission that fails a validation rule starts no
\* settlement, issues no store call and changes nothing but the notification
\* (the form keeps what was typed), and the message is that of the first
\* failing rule in the order required fields, IBAN format, amount, employee
\* cooldown, balance.
C23_FirstFailingRule ==
  [][ (/\ TransferSubmitStep
       /\ \E r \in ValidationRecipients, i \in ValidationIbans,
             a \in ValidationAmounts : handleTransferSubmit(r, i, a))
      =>
        LET d == transferData'
            u == currentUser
            amountNum == ParseFloat(d.amount)
            required == MissingField(d)
            format == BadIban(d.iban)
            amount == BadAmount(amountNum)
            cooldown == u.role = "employee"
                          /\ RecentTx(transactions, d.iban, u.username, now)
            balance == Constrained(u) /\ NumGt(amountNum, u.balance)
        IN  (required \/ format \/ amount \/ cooldown \/ balance) =>
              /\ notification' = ErrorNote(
                   IF required THEN MsgRequired
                   ELSE IF format THEN MsgIban
                   ELSE IF amount THEN MsgAmount
                   ELSE IF cooldown THEN MsgCooldown
                   ELSE MsgBalance)
              /\ NoTransferEffect
              /\ UNCHANGED <<hSubmitted, hWrites, syncCtx, timers, txIds>> ]_vars

\* a form with a malformed IBAN and an invalid amount was rejected with the
\* IBAN message
C23_Witness ==
  /\ LoggedIn
  /\ notification = ErrorNote(MsgIban)
  /\ ~MissingField(transferData)
  /\ BadIban(transferData.iban)
  /\ BadAmount(ParseFloat(transferData.amount))
  /\ ~isSubmitting
  /\ ~showAnimation

\* an employee's form inside the cooldown and above the balance was rejected
\* with the cooldown message
C23_WitnessCooldown ==
  /\ LoggedIn
  /\ notification = ErrorNote(MsgCooldown)
  /\ NumGt(ParseFloat(transferData.amount), currentUser.balance)
  /\ ~isSubmitting

\* ---------------------------------------------------------------- C24
\* a step of the commit: the settlement's completion or a store reply to it
SyncStep == syncPc' # syncPc

\* the balance rule does not apply to u
Unbounded(u) == u.role = "manager" \/ u.isUnlimited

\* the session the commit of this step runs for
SyncUser == IF syncPc = "idle" THEN currentUser ELSE syncCtx.user

\* C24: for a session whose role is manager or whose account is unlimited, a
\* transfer of any valid positive amount passes the balance check (it is
\* accepted when the rules before it pass), and its commit inserts the
\* transaction, issues no balance update and leaves every balance unchanged,
\* in the store, in the user list and in the session.
C24_UnlimitedTransfer ==
  [][ /\ (/\ TransferSubmitStep
          /\ Unbounded(currentUser)
          /\ \E a \in UnlimitedAmounts : handleTransferSubmit(<<"1">>, <<>>, a)
          /\ EarlierRulesPass(transferData', currentUser, transactions, now))
         => (isSubmitting' /\ showAnimation' /\ notification' = NoNote)
      /\ (SyncStep /\ Unbounded(SyncUser))
         => /\ UNCHANGED <<dbUsers, users, currentUser>>
            /\ syncPc' # "update"
            /\ hWrites'.updates = 0
            /\ (syncPc = "insert" /\ notification' = SuccessNote(MsgTransferDone))
                 => /\ dbTx' = Append(dbTx, txRow(syncCtx.tx[1]))
                    /\ transactions' = syncCtx.tx \o transactions ]_vars

\* an employee flagged unlimited has committed a transfer above the balance the
\* account had before: the row is stored and the stored balance is untouched
C24_Witness ==
  /\ LoggedIn
  /\ currentUser.role = "employee"
  /\ currentUser.isUnlimited
  /\ notification = SuccessNote(MsgTransferDone)
  /\ Len(hCompleted) = 1
  /\ hCompleted[1].amount > EmployeeBalance
  /\ hCompleted[1].createdBy = currentUser.username
  /\ hWrites = [inserts |-> 1, updates |-> 0]
  /\ \E k \in 1..Len(dbTx) : dbTx[k].id = hCompleted[1].id
  /\ \E k \in 1..Len(dbUsers) :
       /\ dbUsers[k].id = currentUser.id
       /\ dbUsers[k].balance = UnlimitedStoreBalance
       /\ dbUsers[k].is_unlimited

\* the same for a manager's session
C24_WitnessManager ==
  /\ LoggedIn
  /\ currentUser.role = "manager"
  /\ notification = SuccessNote(MsgTransferDone)
  /\ Len(hCompleted) = 1
  /\ hWrites = [inserts |-> 1, updates |-> 0]
  /\ \E k \in 1..Len(dbTx) : dbTx[k].id = hCompleted[1].id

\* ---------------------------------------------------------------- C25
\* C25: a recharge of account id with an amount or with unlimited overwrites
\* exactly that account's balance and unlimited flag, in the store and in the
\* user list, whatever the caller's own balance; every other account and all
\* transactions stay as they were, and on a store error the user list (and the
\* store) is unchanged.
C25_RechargeOverwrites ==
  [][ \A proc \in rechProcs :
        (rechProcs' = rechProcs \ {proc}) =>
          /\ UNCHANGED <<dbTx, transactions, currentUser>>
          /\ notification' \in {SuccessNote(MsgRecharged),
                                ErrorNote(MsgRechargeFailed \o StoreError)}
          /\ notification'.type = "error" => UNCHANGED <<dbUsers, users>>
          /\ notification'.type = "success" =>
               /\ Len(dbUsers') = Len(dbUsers)
               /\ Len(users') = Len(users)
               /\ \A k \in 1..Len(dbUsers) :
                    dbUsers'[k] =
                      IF dbUsers[k].id = proc.userId
                        THEN [dbUsers[k] EXCEPT
                                !.balance = IF proc.isUnlimited
                                              THEN UnlimitedStoreBalance
                                              ELSE proc.amount,
                                !.is_unlimited = proc.isUnlimited]
                        ELSE dbUsers[k]
               /\ \A k \in 1..Len(users) :
                    users'[k] =
                      IF users[k].id = proc.userId
                        THEN [users[k] EXCEPT
                                !.balance = IF proc.isUnlimited THEN Infinity
                                                                ELSE proc.amount,
                                !.isUnlimited = proc.isUnlimited]
                        ELSE users[k] ]_vars

\* the manager's own account was recharged to 0 and then the employee's to 50,
\* above the caller's listed balance; store and list agree on both
C25_Witness ==
  /\ notification = SuccessNote(MsgRecharged)
  /\ \E k \in 1..Len(users) :
       /\ users[k].id = initialAdmin.id
       /\ users[k].balance = 0
       /\ ~users[k].isUnlimited
  /\ \E k \in 1..Len(users) :
       users[k].id = storedEmployee.id /\ users[k].balance = 50
  /\ \E k \in 1..Len(dbUsers) :
       dbUsers[k].id = storedEmployee.id /\ dbUsers[k].balance = 50
  /\ \E k \in 1..Len(dbUsers) :
       dbUsers[k].id = initialAdmin.id /\ dbUsers[k].balance = 0

\* an unlimited account was made limited and a limited one unlimited
C25_WitnessFlag ==
  /\ \E k \in 1..Len(users) :
       users[k].id = storedEmployee.id /\ users[k].isUnlimited
         /\ users[k].balance = Infinity
  /\ \E k \in 1..Len(dbUsers) :
       dbUsers[k].id = storedEmployee.id /\ dbUsers[k].is_unlimited
         /\ dbUsers[k].balance = UnlimitedStoreBalance

\* ---------------------------------------------------------------- C26
\* the seeded account as the user list holds it
SeededAccount ==
  [id |-> initialAdmin.id, username |-> initialAdmin.username,
   password |-> initialAdmin.password, name |-> initialAdmin.name,
   role |-> "manager", balance |-> Infinity, isUnlimited |-> TRUE]

\* C26: at startup the default unlimited manager account is inserted exactly
\* when the users select succeeds and returns no rows; when the insert
\* succeeds the seeded account is the whole user list and its credentials
\* authenticate; when it fails the user list stays empty; when the select
\* fails nothing is inserted.
C26_Seeding ==
  [][ /\ (fetchPc = "users" /\ fetchPc' # "users") =>
            /\ UNCHANGED dbUsers
            /\ (fetchPc' = "seed") <=> (notification' = NoNote /\ dbUsers = <<>>)
            /\ notification' # NoNote => UNCHANGED users
      /\ (fetchPc = "seed" /\ fetchPc' # "seed") =>
            /\ users = <<>>
            /\ dbUsers = <<>>
            /\ \/ /\ dbUsers' = <<initialAdmin>>
                  /\ users' = <<SeededAccount>>
                  /\ \E k \in 1..Len(users') :
                       /\ users'[k].username = "admin"
                       /\ users'[k].password = "admin"
               \/ UNCHANGED <<dbUsers, users>> ]_vars

\* the store was empty, the account was seeded and has logged in
C26_Witness ==
  /\ dbUsers = <<initialAdmin>>
  /\ users = <<SeededAccount>>
  /\ currentUser = SeededAccount
  /\ fetchPc = "tx"

\* the store was empty and the seeding insert failed
C26_WitnessFailed ==
  /\ dbUsers = <<>>
  /\ users = <<>>
  /\ fetchPc = "tx"
  /\ notification = NoNote

\* ---------------------------------------------------------------- C27
\* C27: when the session has changed to another user while a commit awaited
\* the store, the completion of the commit changes the balance of the user
\* who initiated it and leaves the session of the user now logged in as it is.
C27_OtherSessionUntouched ==
  [][ (/\ syncPc = "update"
       /\ syncPc' = "idle"
       /\ notification' = SuccessNote(MsgTransferDone)
       /\ LoggedIn
       /\ currentUser.id # syncCtx.user.id)
      => /\ currentUser' = currentUser
         /\ \A k \in 1..Len(users') :
              users'[k].id # syncCtx.user.id => users'[k] = users[k] ]_vars

\* the user list's part of C27 alone: only the initiating user's entry changes
C27_ListOnlyInitiator ==
  [][ (syncPc = "update" /\ syncPc' = "idle") =>
        /\ Len(users') = Len(users)
        /\ \A k \in 1..Len(users) :
             users[k].id # syncCtx.user.id => users'[k] = users[k] ]_vars

\* ---------------------------------------------------------------- C28
\* C28: whenever a session is held, the user list has an account with the
\* session's id, and the session's balance and unlimited flag are those of
\* that account.
C28_SessionMatchesList ==
  LoggedIn =>
    \E k \in 1..Len(users) :
       /\ users[k].id = currentUser.id
       /\ users[k].balance = currentUser.balance
       /\ users[k].isUnlimited = currentUser.isUnlimited

\* ---------------------------------------------------------------- C29
\* the current view is one the session's role may navigate to
ViewAllowed ==
  LoggedIn =>
    /\ currentView = "users" => currentUser.role = "manager"
    /\ currentView = "transfer" => currentUser.role \in {"manager", "employee"}
    /\ currentView = "overview" => currentUser.role \in {"manager", "accountant"}
    /\ currentView \in {"users", "transfer", "overview", "history"}

\* C29: in every reachable state with a session held, the current view is one
\* the session's role may navigate to, also after a logout followed by a login
\* as a user of another role; account provisioning, deletion and recharge are
\* started from manager sessions only.
C29_ViewsByRole ==
  [][ /\ ViewAllowed'
      /\ (\/ ~(addProcs' \subseteq addProcs)
          \/ ~(delProcs' \subseteq delProcs)
          \/ ~(rechProcs' \subseteq rechProcs)
          \/ (newUserData' # newUserData /\ addProcs' = addProcs
                /\ notification'.type = "error"))
         => (LoggedIn /\ currentUser.role = "manager") ]_vars

\* an accountant's session after a manager's session that was in the users
\* view, where the accountant's account was created
C29_Witness ==
  /\ LoggedIn
  /\ currentUser.role = "accountant"
  /\ currentUser.username = "e2"
  /\ currentView = "overview"
  /\ userIds > 0

\* an employee's session after a manager's session
C29_WitnessEmployee ==
  /\ LoggedIn
  /\ currentUser.role = "employee"
  /\ currentView = "history"
  /\ \E k \in 1..Len(users) :
       users[k].id = storedEmployee.id /\ users[k].isUnlimited

\* ---------------------------------------------------------------- C30
\* C30: in a single client with no store errors, once the users are loaded
\* the user list equals the store's users table under the startup mapping
\* after every operation: a reload would show the same accounts with the same
\* balances and unlimited flags.
C30_ListEqualsStore ==
  fetchPc = "tx" => users = mappedUsers(dbUsers)

\* the same for the accounts that are not managers
C30_NonManagersEqual ==
  fetchPc = "tx" =>
    /\ Len(users) = Len(dbUsers)
    /\ \A k \in 1..Len(users) :
         /\ users[k].id = dbUsers[k].id
         /\ users[k].role # "manager" => users[k] = mappedUser(dbUsers[k])

====
